---- MODULE Spec2Model ----
(***************************************************************************)
(* Graph Mind: the retrieval pipeline of the agent (chatStream and        *)
(* searchVaultWithProgress), the query parser and the filter engine.      *)
(*                                                                         *)
(* Strings are TLA+ strings handled character by character with Len,      *)
(* SubSeq and \o.  Scores are fixed-point numbers in thousandths          *)
(* (Scale): the score 5.2 is written 5200.                                *)
(***************************************************************************)
EXTENDS Integers, Sequences, FiniteSets, TLC

(***************************************************************************)
(* Strings, as String.prototype and the regular expressions use them.     *)
(***************************************************************************)
UpperChars == "ABCDEFGHIJKLMNOPQRSTUVWXYZ"
LowerChars == "abcdefghijklmnopqrstuvwxyz"
DigitChars == "0123456789"

\* U+0000 cannot be written in a TLA+ string literal; "^" stands for it.
NUL == "^"

\* s.substring over 1-based inclusive bounds, clipped to the string.
Slice(s, a, b) ==
    LET lo == IF a < 1 THEN 1 ELSE a
        hi == IF b > Len(s) THEN Len(s) ELSE b
    IN IF lo > hi THEN "" ELSE SubSeq(s, lo, hi)

CharAt(s, i) == Slice(s, i, i)

InChars(c, set) == \E i \in 1..Len(set) : CharAt(set, i) = c

IsUpper(c) == InChars(c, UpperChars)
IsLetter(c) == InChars(c, UpperChars) \/ InChars(c, LowerChars)
IsDigit(c) == InChars(c, DigitChars)
\* \w
IsWordChar(c) == IsLetter(c) \/ IsDigit(c) \/ c = "_"
\* \s, also the white space of trim(): of the characters a string of the
\* model can hold these are space, tab, line feed, carriage return, form
\* feed and the vertical tab (U+000B).
IsSpace(c) == c \in {" ", "\t", "\n", "\r", "\f", ""}
\* [^\s]
IsNonSpace(c) == Len(c) = 1 /\ ~IsSpace(c)
\* [^"]
IsNonQuote(c) == Len(c) = 1 /\ c # "\""
\* [a-zA-Z0-9_/-]
IsTagChar(c) == IsLetter(c) \/ IsDigit(c) \/ c \in {"_", "/", "-"}

\* Characters outside ASCII cannot be written in a TLA+ string literal: "@" and
\* "&" stand for U+00C9 and U+00E9 (E and e with acute), "~" for the combining
\* acute accent U+0301, "$" and "%" for the ideographs U+4E2D and U+6587.
AccentedUpper == "@"

AccentedLower == "&"

CombiningMark == "~"

CJKChars == "$%"

LowerChar(c) ==
    IF IsUpper(c)
    THEN CharAt(LowerChars, CHOOSE i \in 1..Len(UpperChars) : CharAt(UpperChars, i) = c)
    ELSE IF c = AccentedUpper THEN AccentedLower
    ELSE c

RECURSIVE toLowerCase(_)
toLowerCase(s) ==
    IF Len(s) = 0 THEN "" ELSE LowerChar(CharAt(s, 1)) \o toLowerCase(Tail(s))

\* String.prototype.indexOf, 1-based; 0 when sub does not occur at or after from.
IndexOf(s, sub, from) ==
    LET hits == {i \in from..(Len(s) - Len(sub) + 1) : Slice(s, i, i + Len(sub) - 1) = sub}
    IN IF hits = {} THEN 0 ELSE CHOOSE i \in hits : \A j \in hits : i <= j

includes(s, sub) == IndexOf(s, sub, 1) # 0

startsWith(s, prefix) == Slice(s, 1, Len(prefix)) = prefix

\* s.replace(sub, ''): the first occurrence of sub is removed.
ReplaceFirst(s, sub) ==
    LET i == IndexOf(s, sub, 1)
    IN IF i = 0 THEN s ELSE Slice(s, 1, i - 1) \o Slice(s, i + Len(sub), Len(s))

\* The element of a one-element set: {F(v) : v \in {e}} computes e once.
TheOne(S) == CHOOSE out \in S : TRUE

\* s.replace(/\0/g, '')
RECURSIVE StripNul(_)
StripNul(s) ==
    IF Len(s) = 0 THEN ""
    ELSE (IF CharAt(s, 1) = NUL THEN "" ELSE CharAt(s, 1)) \o StripNul(Tail(s))

trim(s) ==
    LET Between(keep) ==
            IF keep = {} THEN ""
            ELSE Slice(s, CHOOSE i \in keep : \A j \in keep : i <= j,
                           CHOOSE i \in keep : \A j \in keep : i >= j)
    IN TheOne({Between(keep) : keep \in {{i \in 1..Len(s) : ~IsSpace(CharAt(s, i))}}})

\* path.split('.').pop(): what follows the last '.', the whole string without one.
SplitPop(s) ==
    LET dots == {i \in 1..Len(s) : CharAt(s, i) = "."}
    IN IF dots = {} THEN s
       ELSE Slice(s, (CHOOSE i \in dots : \A j \in dots : i >= j) + 1, Len(s))

\* The character classes of the regular expressions: [^"], [a-zA-Z0-9_/-], \w, [^\s].
InClass(class, c) ==
    CASE class = "nonQuote" -> IsNonQuote(c)
      [] class = "tagChar" -> IsTagChar(c)
      [] class = "wordChar" -> IsWordChar(c)
      [] class = "nonSpace" -> IsNonSpace(c)

\* The last index of the run of class characters that starts at p (p - 1 when empty).
RunEnd(s, p, class) ==
    LET stops == {i \in p..Len(s) : ~InClass(class, CharAt(s, i))}
    IN IF stops = {} THEN Len(s) ELSE (CHOOSE i \in stops : \A j \in stops : i <= j) - 1

(***************************************************************************)
(* The six regular expressions of parseQuery.  MatchEnd is the index of   *)
(* the last character of the match that starts at p, 0 without a match.   *)
(***************************************************************************)
\* /"([^"]+)"/g
QuoteMatchEnd(s, p) ==
    LET e == RunEnd(s, p + 1, "nonQuote")
    IN IF CharAt(s, p) = "\"" /\ e >= p + 1 /\ CharAt(s, e + 1) = "\"" THEN e + 1 ELSE 0

\* /#([a-zA-Z][a-zA-Z0-9_/-]*)/g
TagMatchEnd(s, p) ==
    IF CharAt(s, p) = "#" /\ IsLetter(CharAt(s, p + 1))
    THEN RunEnd(s, p + 2, "tagChar") ELSE 0

\* /ext:(\w+)/gi
ExtMatchEnd(s, p) ==
    LET e == RunEnd(s, p + 4, "wordChar")
    IN IF toLowerCase(Slice(s, p, p + 3)) = "ext:" /\ e >= p + 4 THEN e ELSE 0

\* /(?<!-)path:([^\s]+)/gi
PathIncludeMatchEnd(s, p) ==
    LET e == RunEnd(s, p + 5, "nonSpace")
    IN IF /\ toLowerCase(Slice(s, p, p + 4)) = "path:"
          /\ ~(p > 1 /\ CharAt(s, p - 1) = "-")
          /\ e >= p + 5
       THEN e ELSE 0

\* /-path:([^\s]+)/gi
PathExcludeMatchEnd(s, p) ==
    LET e == RunEnd(s, p + 6, "nonSpace")
    IN IF toLowerCase(Slice(s, p, p + 5)) = "-path:" /\ e >= p + 6 THEN e ELSE 0

\* /-(\w+)/g
ExcludeMatchEnd(s, p) ==
    LET e == RunEnd(s, p + 1, "wordChar")
    IN IF CharAt(s, p) = "-" /\ e >= p + 1 THEN e ELSE 0

MatchEnd(regex, s, p) ==
    CASE regex = "quote" -> QuoteMatchEnd(s, p)
      [] regex = "tag" -> TagMatchEnd(s, p)
      [] regex = "ext" -> ExtMatchEnd(s, p)
      [] regex = "pathInclude" -> PathIncludeMatchEnd(s, p)
      [] regex = "pathExclude" -> PathExcludeMatchEnd(s, p)
      [] regex = "exclude" -> ExcludeMatchEnd(s, p)

\* The offset of the capture group from the start of the match, and what
\* follows the group inside the match.
GroupOffset(regex) ==
    CASE regex = "quote" -> 1
      [] regex = "tag" -> 0
      [] regex = "ext" -> 4
      [] regex = "pathInclude" -> 5
      [] regex = "pathExclude" -> 6
      [] regex = "exclude" -> 1

GroupTail(regex) == IF regex = "quote" THEN 1 ELSE 0

\* regex.exec(s) with the g flag and lastIndex consumed characters: the
\* leftmost match starting after lastIndex, as [start, end], or start = 0.
Exec(regex, s, lastIndex) ==
    LET starts == {p \in (lastIndex + 1)..Len(s) : MatchEnd(regex, s, p) # 0}
        p0 == CHOOSE p \in starts : \A q \in starts : p <= q
    IN IF starts = {} THEN [start |-> 0, end |-> 0]
       ELSE [start |-> p0, end |-> MatchEnd(regex, s, p0)]

\* while ((match = regex.exec(subject)) !== null) { push; remaining = remaining.replace(match[0], '') }
\* st holds remaining, the regex's lastIndex and the list being filled.
\* onRemaining: the regex runs on the string it is shortening (steps 2 to 6);
\* otherwise it runs on rawQuery while remaining is shortened (step 1).
RECURSIVE ExtractLoop(_, _, _, _)
ExtractLoop(regex, raw, onRemaining, st) ==
    LET subject == IF onRemaining THEN st.remaining ELSE raw
        Turn(m) ==
            LET match0 == Slice(subject, m.start, m.end)
                group == Slice(subject, m.start + GroupOffset(regex), m.end - GroupTail(regex))
                item == IF regex = "tag" THEN match0 ELSE toLowerCase(group)
            IN IF m.start = 0 THEN st
               ELSE TheOne({ExtractLoop(regex, raw, onRemaining, next) :
                               next \in {[remaining |-> ReplaceFirst(st.remaining, match0),
                                          lastIndex |-> m.end,
                                          found |-> Append(st.found, item)]}})
    IN TheOne({Turn(m) : m \in {Exec(regex, subject, st.lastIndex)}})

\* remaining.split(/\s+/).map(t => t.trim().toLowerCase()).filter(t => t.length > 0)
RECURSIVE SplitWords(_)
SplitWords(s) ==
    LET starts == {i \in 1..Len(s) : ~IsSpace(CharAt(s, i))}
        b == CHOOSE i \in starts : \A j \in starts : i <= j
        e == RunEnd(s, b, "nonSpace")
    IN IF starts = {} THEN <<>>
       ELSE <<toLowerCase(Slice(s, b, e))>> \o SplitWords(Slice(s, e + 1, Len(s)))

\* The steps with the generic -word rule run before the -path: rule.
ExtractionStepsExcludeFirst ==
    << [regex |-> "quote", facet |-> "exactTerms", onRemaining |-> FALSE],
       [regex |-> "tag", facet |-> "tags", onRemaining |-> TRUE],
       [regex |-> "ext", facet |-> "extensions", onRemaining |-> TRUE],
       [regex |-> "pathInclude", facet |-> "pathIncludes", onRemaining |-> TRUE],
       [regex |-> "exclude", facet |-> "textExcludes", onRemaining |-> TRUE],
       [regex |-> "pathExclude", facet |-> "pathExcludes", onRemaining |-> TRUE] >>

\* The facet each extraction step fills, in the order the steps run.
ExtractionSteps ==
    << [regex |-> "quote", facet |-> "exactTerms", onRemaining |-> FALSE],
       [regex |-> "tag", facet |-> "tags", onRemaining |-> TRUE],
       [regex |-> "ext", facet |-> "extensions", onRemaining |-> TRUE],
       [regex |-> "pathInclude", facet |-> "pathIncludes", onRemaining |-> TRUE],
       [regex |-> "pathExclude", facet |-> "pathExcludes", onRemaining |-> TRUE],
       [regex |-> "exclude", facet |-> "textExcludes", onRemaining |-> TRUE] >>

\* One extraction step of parseQuery on acc = [rawQuery, remaining, parsed].
ExtractStep(acc, step) ==
    LET Store(st) ==
            [rawQuery |-> acc.rawQuery,
             remaining |-> st.remaining,
             parsed |-> [acc.parsed EXCEPT ![step.facet] = st.found]]
    IN TheOne({Store(st) :
                  st \in {ExtractLoop(step.regex, acc.rawQuery, step.onRemaining,
                                      [remaining |-> acc.remaining, lastIndex |-> 0,
                                       found |-> <<>>])}})

RECURSIVE ExtractAll(_, _)
ExtractAll(acc, k) ==
    IF k > Len(ExtractionSteps) THEN acc
    ELSE TheOne({ExtractAll(next, k + 1) : next \in {ExtractStep(acc, ExtractionSteps[k])}})

EmptyParsedQuery ==
    [text |-> <<>>, exactTerms |-> <<>>, tags |-> <<>>, extensions |-> <<>>,
     pathIncludes |-> <<>>, pathExcludes |-> <<>>, textExcludes |-> <<>>]

parseQuery(raw) ==
    LET Finish(acc) == [acc.parsed EXCEPT !.text = SplitWords(acc.remaining)]
    IN TheOne({Finish(acc) :
                  acc \in {ExtractAll([rawQuery |-> raw, remaining |-> raw,
                                       parsed |-> EmptyParsedQuery], 1)}})

Range(seq) == {seq[i] : i \in 1..Len(seq)}

(***************************************************************************)
(* The filter engine.                                                      *)
(***************************************************************************)
\* A filter in which the tags of the query would restrict as well.
matchesFiltersByTagsToo(result, facets, docContent) ==
    LET path == toLowerCase(IF result.path # "" THEN result.path ELSE result.id)
        content == toLowerCase(docContent)
        ext == SplitPop(path)
    IN /\ Len(facets.extensions) > 0 =>
              \E e \in Range(facets.extensions) : ext = e \/ startsWith(ext, e)
       /\ Len(facets.pathIncludes) > 0 =>
              \E p \in Range(facets.pathIncludes) : includes(path, p)
       /\ Len(facets.pathExcludes) > 0 =>
              ~\E p \in Range(facets.pathExcludes) : includes(path, p)
       /\ Len(facets.exactTerms) > 0 =>
              \A term \in Range(facets.exactTerms) : includes(content, term)
       /\ Len(facets.textExcludes) > 0 =>
              ~\E term \in Range(facets.textExcludes) : includes(content, term)
       /\ \A tag \in Range(facets.tags) : includes(content, toLowerCase(tag))

matchesFilters(result, facets, docContent) ==
    LET path == toLowerCase(IF result.path # "" THEN result.path ELSE result.id)
        content == toLowerCase(docContent)
        ext == SplitPop(path)
    IN /\ Len(facets.extensions) > 0 =>
              \E e \in Range(facets.extensions) : ext = e \/ startsWith(ext, e)
       /\ Len(facets.pathIncludes) > 0 =>
              \E p \in Range(facets.pathIncludes) : includes(path, p)
       /\ Len(facets.pathExcludes) > 0 =>
              ~\E p \in Range(facets.pathExcludes) : includes(path, p)
       /\ Len(facets.exactTerms) > 0 =>
              \A term \in Range(facets.exactTerms) : includes(content, term)
       /\ Len(facets.textExcludes) > 0 =>
              ~\E term \in Range(facets.textExcludes) : includes(content, term)

(***************************************************************************)
(* Scores.  A score x of the code is the integer x * Scale.               *)
(***************************************************************************)
Scale == 10 * 10 * 10

\* The sentinel scores of a skipped (empty) chunk and of a chunk whose
\* embedding call failed.
EmptyScore == -100

FailedScore == -999

TagBoostFactor == 100

BATCH_SIZE == 1

TopChunks == 50

TopDocs == 20

FallbackDocs == 12

Take(seq, n) == SubSeq(seq, 1, IF n < Len(seq) THEN n ELSE Len(seq))

\* Math.sqrt on the perfect squares the embedding vectors produce.
Sqrt(n) == CHOOSE r \in 0..n : r * r = n

RECURSIVE DotProduct(_, _, _)
DotProduct(a, b, n) == IF n = 0 THEN 0 ELSE a[n] * b[n] + DotProduct(a, b, n - 1)

\* A similarity that would divide by the norm of its first argument only.
cosineSimilarityByFirstNorm(a, b) ==
    (DotProduct(a, b, Len(a)) * Scale) \div DotProduct(a, a, Len(a))

cosineSimilarity(a, b) ==
    (DotProduct(a, b, Len(a)) * Scale)
        \div (Sqrt(DotProduct(a, a, Len(a))) * Sqrt(DotProduct(b, b, Len(a))))

(***************************************************************************)
(* The vaults a chat session runs over: the notes buildIndex found when   *)
(* the plugin was loaded, all of them written today, in the order the     *)
(* vault lists them.                                                       *)
(***************************************************************************)
\* Times are whole days since the epoch.  Date.now():
DateNow == 19675

Note(path, content) == [path |-> path, content |-> content, mtime |-> DateNow]

LongLen == 51

LongPaths == 22

LongText == "plan #todo draft"

\* The j-th note of the long vault, j from 0; every third is named after a plan.
LongPath(j) == (IF j % 3 = 0 THEN "plan" ELSE "n") \o ToString(j) \o ".md"

\* The paragraphs of the long vault are dealt to its notes in turn.
LongParagraphs(j) ==
    LET mine == {k \in 0..(LongLen - 1) : k % LongPaths = j}
    IN [i \in 1..Cardinality(mine) |->
           Slice(LongText, 1, 4 + ((j + LongPaths * (i - 1)) % 13))]

\* A vault of LongLen paragraphs about a plan in LongPaths notes, after a
\* note about something else.
LongVault ==
    <<Note("notes.md", <<"ideas", "lists", "tasks">>)>>
        \o [j \in 1..LongPaths |-> Note(LongPath(j - 1), LongParagraphs(j - 1))]

ChatVaults ==
    {<<Note("a.md", <<"plan #todo", "plan later">>)>>,
     <<Note("d.md", <<"my plan", "plan for now">>)>>,
     <<Note("old/plan.md", <<"Draft #TODO!", "ideas for it", "^ ^">>)>>,
     <<Note("a.md", <<"plan later">>), Note("old/plan.md", <<"Draft #TODO!">>)>>,
     LongVault}

ChatNotes == UNION {Range(v) : v \in ChatVaults}

\* The paragraphs of these notes, as the chunker trims them.
ChatTexts == UNION {{trim(note.content[k]) : k \in 1..Len(note.content)} : note \in ChatNotes}

\* These texts, cleaned once.
CleanTexts == [content \in ChatTexts |-> trim(StripNul(content))]

\* (chunk.content || "").replace(/\0/g, '').trim()
CleanContent(chunk) ==
    IF chunk.content \in ChatTexts THEN CleanTexts[chunk.content]
    ELSE trim(StripNul(chunk.content))

\* finalScore = (chunk.keywordScore * 0.1) + (similarity * 10)
FinalScore(keywordScore, similarity) == (keywordScore \div 10) + (similarity * 10)

\* An empty chunk that would carry the length of its raw content.
SkippedChunkWithLength(chunk) ==
    [id |-> chunk.id, path |-> chunk.path, content |-> chunk.content,
     keywordScore |-> chunk.keywordScore,
     finalScore |-> EmptyScore * Scale, similarity |-> 0, chunkLen |-> Len(chunk.content)]

SkippedChunk(chunk) ==
    [id |-> chunk.id, path |-> chunk.path, content |-> chunk.content,
     keywordScore |-> chunk.keywordScore,
     finalScore |-> EmptyScore * Scale, similarity |-> 0, chunkLen |-> 0]

EmbeddedChunk(chunk, queryVector, chunkEmbedding) ==
    LET similarity == cosineSimilarity(queryVector, chunkEmbedding)
    IN [id |-> chunk.id, path |-> chunk.path, content |-> chunk.content,
        keywordScore |-> chunk.keywordScore,
        finalScore |-> FinalScore(chunk.keywordScore, similarity),
        similarity |-> similarity, chunkLen |-> Len(CleanContent(chunk))]

\* A failed chunk that would be scored like an empty one.
FailedChunkAsSkipped(chunk) == SkippedChunk(chunk)

FailedChunk(chunk) ==
    [id |-> chunk.id, path |-> chunk.path, content |-> chunk.content,
     keywordScore |-> chunk.keywordScore,
     finalScore |-> FailedScore * Scale, similarity |-> 0,
     chunkLen |-> Len(CleanContent(chunk))]

\* Array.prototype.sort((a, b) => b.finalScore - a.finalScore): stable, descending.
\* x goes behind every element that does not compare below it.
InsertByScore(sorted, x) ==
    LET ahead == {k \in 1..Len(sorted) : sorted[k].finalScore >= x.finalScore}
        p == Cardinality(ahead)
    IN SubSeq(sorted, 1, p) \o <<x>> \o SubSeq(sorted, p + 1, Len(sorted))

\* The insertions of seq[lo..hi] into sorted, in order: the turns lo..mid run
\* first and their value (half) feeds the turns mid+1..hi.
RECURSIVE SortRange(_, _, _, _)
SortRange(sorted, seq, lo, hi) ==
    IF lo > hi THEN sorted
    ELSE IF lo = hi THEN InsertByScore(sorted, seq[lo])
    ELSE LET mid == (lo + hi) \div 2
         IN TheOne({SortRange(half, seq, mid + 1, hi) :
                       half \in {SortRange(sorted, seq, lo, mid)}})

SortByFinalScore(seq) == SortRange(<<>>, seq, 1, Len(seq))

HasFilterFacet(facets) ==
    \/ Len(facets.extensions) > 0
    \/ Len(facets.pathIncludes) > 0
    \/ Len(facets.pathExcludes) > 0
    \/ Len(facets.exactTerms) > 0
    \/ Len(facets.textExcludes) > 0

ApplyFilters(sorted, facets) ==
    LET Keep(chunk) == matchesFilters([path |-> chunk.path, id |-> chunk.id], facets, chunk.content)
    IN IF HasFilterFacet(facets) THEN SelectSeq(sorted, Keep) ELSE sorted

MatchesTag(chunk, facets) ==
    \E tag \in Range(facets.tags) : includes(toLowerCase(chunk.content), toLowerCase(tag))

BoostChunk(chunk, facets) ==
    IF MatchesTag(chunk, facets)
    THEN [chunk EXCEPT !.finalScore = @ * TagBoostFactor]
    ELSE chunk

TagBoost(filtered, facets) ==
    IF Len(facets.tags) > 0
    THEN SortByFinalScore([k \in 1..Len(filtered) |-> BoostChunk(filtered[k], facets)])
    ELSE filtered

\* A grouping that would take the content of the last chunk of a path.
GroupChunkLastContent(docs, chunk) ==
    LET at == {k \in 1..Len(docs) : docs[k].path = chunk.path}
        k0 == CHOOSE k \in at : TRUE
    IN IF at = {}
       THEN Append(docs, [path |-> chunk.path, content |-> chunk.content,
                          keywordScore |-> chunk.keywordScore,
                          finalScore |-> chunk.finalScore,
                          similarity |-> chunk.similarity, chunks |-> <<chunk>>])
       ELSE [docs EXCEPT ![k0] = [docs[k0] EXCEPT !.content = chunk.content,
                                                  !.chunks = Append(docs[k0].chunks, chunk)]]

\* A grouping that would keep the best keywordScore of a path.
GroupChunkBestKeyword(docs, chunk) ==
    LET at == {k \in 1..Len(docs) : docs[k].path = chunk.path}
        k0 == CHOOSE k \in at : TRUE
        doc == docs[k0]
        pushed == [doc EXCEPT !.chunks = Append(doc.chunks, chunk),
                              !.keywordScore = IF chunk.keywordScore > @
                                               THEN chunk.keywordScore ELSE @]
    IN IF at = {}
       THEN Append(docs, [path |-> chunk.path, content |-> chunk.content,
                          keywordScore |-> chunk.keywordScore,
                          finalScore |-> chunk.finalScore,
                          similarity |-> chunk.similarity, chunks |-> <<chunk>>])
       ELSE IF chunk.finalScore > doc.finalScore
       THEN [docs EXCEPT ![k0] = [pushed EXCEPT !.finalScore = chunk.finalScore,
                                                !.similarity = chunk.similarity,
                                                !.content = chunk.content]]
       ELSE [docs EXCEPT ![k0] = pushed]

\* One turn of the grouping loop: docs is docMap in insertion order.
GroupChunk(docs, chunk) ==
    LET at == {k \in 1..Len(docs) : docs[k].path = chunk.path}
        k0 == CHOOSE k \in at : TRUE
        doc == docs[k0]
        pushed == [doc EXCEPT !.chunks = Append(doc.chunks, chunk)]
    IN IF at = {}
       THEN Append(docs, [path |-> chunk.path, content |-> chunk.content,
                          keywordScore |-> chunk.keywordScore,
                          finalScore |-> chunk.finalScore,
                          similarity |-> chunk.similarity, chunks |-> <<chunk>>])
       ELSE IF chunk.finalScore > doc.finalScore
       THEN [docs EXCEPT ![k0] = [pushed EXCEPT !.finalScore = chunk.finalScore,
                                                !.similarity = chunk.similarity,
                                                !.content = chunk.content]]
       ELSE [docs EXCEPT ![k0] = pushed]

\* The turns lo..hi of the grouping loop, split like SortRange.
RECURSIVE GroupRange(_, _, _, _)
GroupRange(docs, chunks, lo, hi) ==
    IF lo > hi THEN docs
    ELSE IF lo = hi THEN GroupChunk(docs, chunks[lo])
    ELSE LET mid == (lo + hi) \div 2
         IN TheOne({GroupRange(half, chunks, mid + 1, hi) :
                       half \in {GroupRange(docs, chunks, lo, mid)}})

GroupByDoc(chunks) == GroupRange(<<>>, chunks, 1, Len(chunks))

\* scoredChunks after the boost: the filter returns a new array of the same
\* chunk objects, and with no facet filteredChunks is scoredChunks itself.
Aliased(sorted, ranked, facets) ==
    IF HasFilterFacet(facets)
    THEN [k \in 1..Len(sorted) |->
            IF \E j \in 1..Len(ranked) : ranked[j].id = sorted[k].id
            THEN LET j == CHOOSE j \in 1..Len(ranked) : ranked[j].id = sorted[k].id
                 IN ranked[j]
            ELSE sorted[k]]
    ELSE ranked

\* A selection that would group every chunk and return every document.
SelectEveryDoc(ranked) == SortByFinalScore(GroupByDoc(ranked))

SelectTopDocs(ranked) ==
    LET docs == GroupByDoc(Take(ranked, TopChunks))
        topDocs == SortByFinalScore(docs)
    IN Take(topDocs, TopDocs)

\* A fallback that would return every candidate.
FallbackAll(cands) == cands

Fallback(cands) == Take(cands, FallbackDocs)

(***************************************************************************)
(* Intent triage: generateQuery parses the chat model's free-form output. *)
(***************************************************************************)
RECURSIVE Join(_, _)
Join(words, sep) ==
    IF Len(words) = 0 THEN ""
    ELSE IF Len(words) = 1 THEN words[1]
    ELSE words[1] \o sep \o Join(Tail(words), sep)

\* [...parsedQuery.text, ...parsedQuery.exactTerms].join(' '), or userQuery when empty
TriageInput(query, facets) ==
    LET cleanQuery == Join(facets.text \o facets.exactTerms, " ")
    IN IF Len(cleanQuery) > 0 THEN cleanQuery ELSE query

OpenTag == "<question>"

CloseTag == "</question>"

\* A parsing that would not look for the sentinel outside the tag.
generateQueryWithoutSentinel(query, response) ==
    LET open == IndexOf(response, OpenTag, 1)
        close == IF open = 0 THEN 0 ELSE IndexOf(response, CloseTag, open + Len(OpenTag))
        group == Slice(response, open + Len(OpenTag), close - 1)
    IN IF close # 0 /\ Len(group) > 0 THEN trim(group) ELSE query

\* response.match(/<question>([\s\S]*?)<\/question>/), then the two fallbacks
generateQuery(query, response) ==
    LET open == IndexOf(response, OpenTag, 1)
        close == IF open = 0 THEN 0 ELSE IndexOf(response, CloseTag, open + Len(OpenTag))
        group == Slice(response, open + Len(OpenTag), close - 1)
    IN IF close # 0 /\ Len(group) > 0 THEN trim(group)
       ELSE IF includes(response, "not_needed") THEN "not_needed"
       ELSE query

\* A chatStream that would search whatever the triage said.
NeverSkipsSearch(generated) == FALSE

SkipsSearch(generated) == generated = "not_needed"

(***************************************************************************)
(* The environment: the user's queries, the chat model's triage outputs   *)
(* and the embedding service.                                              *)
(***************************************************************************)
MaxEmbedFailures == 1

\* The embedding service fails only within the first MaxFailIndex chunk calls.
MaxFailIndex == 2

MaxTokens == 2

UserQueries ==
    {"plan", "#todo plan", "plan -path:old", "\"plan\" ext:md -draft"}

TriageResponses ==
    {"<question>my plan</question>", "<question>not_needed</question>",
     "sure, not_needed here", "ok"}

\* The embedding model: a fixed-length vector for every text, the same
\* vector whenever the same text is embedded.
EmbedVectors ==
    << <<5, 0>>, <<8, 6>>, <<3, 4>>, <<0, 10>>, <<-3, 4>>, <<-4, -3>> >>

EmbeddingOf(text) == EmbedVectors[(Len(text) % Len(EmbedVectors)) + 1]

(***************************************************************************)
(* The tokenizer the worker hands to MiniSearch.                           *)
(***************************************************************************)
\* /[\u4e00-\u9fa5]/ on one character
IsCJK(c) == InChars(c, CJKChars)

\* /[\u4e00-\u9fa5]/.test(str)
hasCJK(str) == \E i \in 1..Len(str) : IsCJK(CharAt(str, i))

\* String.prototype.normalize('NFD') on one character
NFDChar(c) ==
    IF c = AccentedLower THEN "e" \o CombiningMark
    ELSE IF c = AccentedUpper THEN "E" \o CombiningMark
    ELSE c

\* str.normalize('NFD').replace(/[\u0300-\u036f]/g, '')
RECURSIVE removeDiacritics(_)
removeDiacritics(str) ==
    IF Len(str) = 0 THEN ""
    ELSE LET c == CharAt(str, 1)
         IN (IF c = CombiningMark THEN "" ELSE Slice(NFDChar(c), 1, 1))
                \o removeDiacritics(Tail(str))

\* tokens.push(currentToken) when currentToken is not empty
Flush(parts, currentToken) ==
    IF currentToken # "" THEN Append(parts, currentToken) ELSE parts

\* Step 1: the loop over the characters from position i on.
RECURSIVE ScanChars(_, _, _, _)
ScanChars(string, i, parts, currentToken) ==
    IF i > Len(string) THEN Flush(parts, currentToken)
    ELSE LET char == CharAt(string, i)
         IN IF IsCJK(char)
            THEN ScanChars(string, i + 1, Append(Flush(parts, currentToken), char), "")
            ELSE IF IsSpace(char)
            THEN ScanChars(string, i + 1, Flush(parts, currentToken), "")
            ELSE ScanChars(string, i + 1, parts, currentToken \o char)

\* word.split(/(?=[A-Z])/): the pieces of word from position from on, cut
\* before every capital behind the first character.
RECURSIVE SplitBeforeCapitals(_, _, _)
SplitBeforeCapitals(word, from, i) ==
    IF i > Len(word) THEN <<Slice(word, from, Len(word))>>
    ELSE IF IsUpper(CharAt(word, i))
    THEN <<Slice(word, from, i - 1)>> \o SplitBeforeCapitals(word, i, i + 1)
    ELSE SplitBeforeCapitals(word, from, i + 1)

splitCamelCase(word) ==
    IF Len(word) < 3 THEN <<word>> ELSE SplitBeforeCapitals(word, 1, 2)

\* word.split('-'): the pieces between the hyphens, empty ones included.
RECURSIVE SplitOnHyphen(_)
SplitOnHyphen(word) ==
    LET i == IndexOf(word, "-", 1)
    IN IF i = 0 THEN <<word>>
       ELSE <<Slice(word, 1, i - 1)>> \o SplitOnHyphen(Slice(word, i + 1, Len(word)))

splitHyphens(word) == IF includes(word, "-") THEN SplitOnHyphen(word) ELSE <<word>>

Normalized(parts) == [k \in 1..Len(parts) |-> removeDiacritics(toLowerCase(parts[k]))]

\* Step 3 for one token: the normalised token, then its camelCase and hyphen parts.
ExpandToken(token) ==
    LET camelSplits == splitCamelCase(token)
        hyphenSplits == splitHyphens(token)
    IN <<removeDiacritics(toLowerCase(token))>>
           \o (IF hasCJK(token) THEN <<>>
               ELSE (IF Len(camelSplits) > 1 THEN Normalized(camelSplits) ELSE <<>>)
                        \o (IF Len(hyphenSplits) > 1 THEN Normalized(hyphenSplits) ELSE <<>>))

RECURSIVE ExpandTokens(_)
ExpandTokens(parts) ==
    IF Len(parts) = 0 THEN <<>> ELSE ExpandToken(Head(parts)) \o ExpandTokens(Tail(parts))

\* [...new Set(list)]: the first occurrence of every element, in order.
RECURSIVE SetOrder(_, _)
SetOrder(seen, list) ==
    IF Len(list) = 0 THEN seen
    ELSE SetOrder(IF Head(list) \in Range(seen) THEN seen ELSE Append(seen, Head(list)),
                  Tail(list))

\* A tokenizer that would return the expanded tokens without the Set.
tokenizeKeepDuplicates(string) ==
    SelectSeq(ExpandTokens(ScanChars(string, 1, <<>>, "")), LAMBDA t : t # "")

tokenize(string) ==
    SetOrder(<<>>, SelectSeq(ExpandTokens(ScanChars(string, 1, <<>>, "")), LAMBDA t : t # ""))

(***************************************************************************)
(* The index worker.  documents is the Map of stored chunks in insertion   *)
(* order; miniSearch is the search index, a list of the indexed documents. *)
(* A field a message leaves out reads as Undefined.                        *)
(***************************************************************************)
Undefined == "undefined"

\* An mtime of 0 stands for a meta without mtime, which the worker reads the
\* same way as one of 0.
NoMeta ==
    [defined |-> FALSE, filePath |-> Undefined, chunkIndex |-> 0, basename |-> Undefined,
     aliases |-> Undefined, h1 |-> Undefined, h2 |-> Undefined, h3 |-> Undefined,
     tags |-> Undefined, urls |-> Undefined, links |-> Undefined, mtime |-> 0,
     frontmatter |-> <<>>]

\* path.split('/').pop(): what follows the last '/'.
LastSegment(path) ==
    LET slashes == {i \in 1..Len(path) : CharAt(path, i) = "/"}
    IN IF slashes = {} THEN path
       ELSE Slice(path, (CHOOSE i \in slashes : \A j \in slashes : i >= j) + 1, Len(path))

\* name.replace(/\.md$/, '')
WithoutMd(name) ==
    IF Len(name) >= 3 /\ Slice(name, Len(name) - 2, Len(name)) = ".md"
    THEN Slice(name, 1, Len(name) - 3)
    ELSE name

\* TFile.basename: the file's name without its extension.
FileBasename(filePath) ==
    LET name == LastSegment(filePath)
        dots == {i \in 1..Len(name) : CharAt(name, i) = "."}
    IN IF dots = {} THEN name
       ELSE Slice(name, 1, (CHOOSE i \in dots : \A j \in dots : i >= j) - 1)

\* The meta of a chunk: { filePath, chunkIndex, ...metadata }, the metadata
\* being that of extractMetadata for a file of this path and stat.mtime
\* that holds no tag.  The notes of the model have no front matter, heading,
\* url or link, so aliases, h1, h2, h3, urls and links are the empty string
\* and frontmatter is empty.
Meta(filePath, chunkIndex, mtime) ==
    [defined |-> TRUE, filePath |-> filePath, chunkIndex |-> chunkIndex,
     basename |-> FileBasename(filePath),
     aliases |-> "", h1 |-> "", h2 |-> "", h3 |-> "", tags |-> "", urls |-> "",
     links |-> "", mtime |-> mtime, frontmatter |-> <<>>]

\* A meta that names the file only.
PathMeta(filePath) == [NoMeta EXCEPT !.defined = TRUE, !.filePath = filePath]

\* A note of the vault as its paragraphs, and the text vault.read returns for it.
FileText(content) == Join(content, "\n\n")

\* content.match(/#[a-zA-Z][a-zA-Z0-9_/-]*/g) || [], from lastIndex on: the
\* leftmost match behind lastIndex, then the matches behind its end.
RECURSIVE InlineTagMatches(_, _)
InlineTagMatches(text, lastIndex) ==
    LET Rest(starts) ==
            IF starts = {} THEN <<>>
            ELSE LET p0 == CHOOSE p \in starts : \A q \in starts : p <= q
                 IN <<Slice(text, p0, TagMatchEnd(text, p0))>>
                        \o InlineTagMatches(text, TagMatchEnd(text, p0))
    IN TheOne({Rest(starts) :
                  starts \in {{p \in (lastIndex + 1)..Len(text) : TagMatchEnd(text, p) # 0}}})

\* allTags.join(' ') of extractMetadata, for a note without front matter:
\* the inline tags, each once, in the order they are met.
extractTags(content) == Join(SetOrder(<<>>, InlineTagMatches(FileText(content), 0)), " ")

ChatContents == {note.content : note \in ChatNotes}

\* The tags of these notes, read once.
TagsTable == [content \in ChatContents |-> extractTags(content)]

\* The meta of a chunk of a note with this content.
MetaOf(content, filePath, chunkIndex, mtime) ==
    [Meta(filePath, chunkIndex, mtime) EXCEPT
        !.tags = IF content \in ChatContents THEN TagsTable[content]
                 ELSE extractTags(content)]

NoPayload ==
    [defined |-> FALSE, id |-> Undefined, content |-> Undefined, meta |-> NoMeta,
     path |-> Undefined, query |-> Undefined, topK |-> 0]

IndexPayload(id, content, meta) ==
    [NoPayload EXCEPT !.defined = TRUE, !.id = id, !.content = content, !.meta = meta]

DeletePayload(path) == [NoPayload EXCEPT !.defined = TRUE, !.path = path]

\* topK = 0 stands for a payload without topK
SearchPayload(query, topK) ==
    [NoPayload EXCEPT !.defined = TRUE, !.query = query, !.topK = topK]

EmptyPayload == [NoPayload EXCEPT !.defined = TRUE]

WorkerMessage(command, id, payload) == [command |-> command, id |-> id, payload |-> payload]

\* initWorker: the message posted to the worker as soon as it is created.
InitMessage == WorkerMessage("init", "init-0", EmptyPayload)

NoData == [message |-> "", docId |-> Undefined, count |-> 0, results |-> <<>>]

SuccessResponse(id, data) ==
    [id |-> id, status |-> "success", data |-> data, error |-> Undefined]

\* An error response that would not carry the id of the message.
ErrorResponseWithoutId(id, error) ==
    [id |-> Undefined, status |-> "error", data |-> NoData, error |-> error]

ErrorResponse(id, error) ==
    [id |-> id, status |-> "error", data |-> NoData, error |-> error]

\* Map.has, Map.get, Map.set (a key that is present keeps its place), Map.delete
MapHas(map, key) == \E k \in 1..Len(map) : map[k].id = key

MapGet(map, key) == map[CHOOSE k \in 1..Len(map) : map[k].id = key]

\* A Map.set that would add an entry whatever the key.
MapSetAppends(map, entry) == Append(map, entry)

MapSet(map, entry) ==
    IF MapHas(map, entry.id)
    THEN [k \in 1..Len(map) |-> IF map[k].id = entry.id THEN entry ELSE map[k]]
    ELSE Append(map, entry)

MapDelete(map, key) == SelectSeq(map, LAMBDA e : e.id # key)

\* MiniSearch: has, add, replace (discard, then add), remove
MiniHas(index, id) == \E k \in 1..Len(index) : index[k].id = id

MiniAdd(index, doc) == Append(index, doc)

MiniReplace(index, doc) == MiniAdd(SelectSeq(index, LAMBDA d : d.id # doc.id), doc)

MiniRemove(index, id) == SelectSeq(index, LAMBDA d : d.id # id)

\* The fields of the search index, and the boost the search gives each.
Fields ==
    <<"basename", "aliases", "path", "content", "h1", "h2", "h3", "tags", "urls", "links">>

\* boost: { basename: 4, aliases: 3.5, ... }, in tenths
FieldBoost ==
    [basename |-> 40, aliases |-> 35, h1 |-> 25, h2 |-> 20, h3 |-> 15, tags |-> 30,
     links |-> 18, urls |-> 13, path |-> 12, content |-> 10]

\* What the fields of the chat vaults' chunks hold, and the chat's search queries.
ChatFieldTexts ==
    ChatTexts \cup {note.path : note \in ChatNotes}
              \cup {FileBasename(note.path) : note \in ChatNotes}
              \cup {TagsTable[note.content] : note \in ChatNotes}
              \cup {"", "plan", "my plan"}

\* The tokens of these texts, read once.
TermsTable == [text \in ChatFieldTexts |-> Range(tokenize(text))]

\* The terms of a field of an indexed document, and of a query: those of the
\* tokenizer; a field without a value has none.
TermsOf(text) ==
    IF text \in ChatFieldTexts THEN TermsTable[text]
    ELSE IF text = Undefined THEN {} ELSE Range(tokenize(text))

\* fuzzy: term.length <= 3 ? 0 : term.length <= 5 ? 0.1 : 0.2, in tenths
Fuzzy(term) == IF Len(term) <= 3 THEN 0 ELSE IF Len(term) <= 5 THEN 1 ELSE 2

\* The edit distance the library allows:
\* Math.min(maxFuzzy, Math.round(term.length * fuzzy)), maxFuzzy being 6.
MaxDistance(term) ==
    LET rounded == (Len(term) * Fuzzy(term) + 5) \div 10
    IN IF rounded > 6 THEN 6 ELSE rounded

Min3(x, y, z) == IF x <= y /\ x <= z THEN x ELSE IF y <= z THEN y ELSE z

\* One row of the edit-distance table: the distances of a[1..i] to every
\* prefix of b, from the row of a[1..i-1].
RECURSIVE EditRow(_, _, _, _)
EditRow(prev, c, b, row) ==
    IF Len(row) = Len(prev) THEN row
    ELSE LET j == Len(row)
             cost == IF CharAt(b, j) = c THEN 0 ELSE 1
         IN EditRow(prev, c, b,
                    Append(row, Min3(prev[j + 1] + 1, row[j] + 1, prev[j] + cost)))

RECURSIVE EditRows(_, _, _, _)
EditRows(a, b, i, prev) ==
    IF i > Len(a) THEN prev
    ELSE EditRows(a, b, i + 1, EditRow(prev, CharAt(a, i), b, <<i>>))

\* The Levenshtein distance of two terms.
EditDistance(a, b) ==
    LET last == EditRows(a, b, 1, [j \in 1..(Len(b) + 1) |-> j - 1])
    IN last[Len(b) + 1]

\* A query term matches an indexed term: the same term, or with
\* prefix: term.length >= 2 a term it begins, or with a fuzzy above 0 a
\* term within the allowed edit distance.
TermMatches(term, token) ==
    \/ token = term
    \/ Len(term) >= 2 /\ startsWith(token, term)
    \/ MaxDistance(term) > 0 /\ EditDistance(term, token) <= MaxDistance(term)

\* The value of a field of an indexed document.
FieldOf(doc, field) == doc[field]

\* Boosts of a document are in units of 1 / BoostScale.
BoostScale == 10 * Scale

\* The exponential is computed in units of 1 / FineScale and rounded to the
\* nearest 1 / BoostScale at the end.
FineScale == BoostScale * BoostScale

\* Math.exp(-1), in units of 1 / FineScale.
ExpMinusOne == 36787944

\* a * b / FineScale rounded down, for 0 <= a, b <= FineScale, by halves of
\* the factors, no product leaving 32 bits.
MulFine(a, b) ==
    (a \div BoostScale) * (b \div BoostScale)
        + (((a \div BoostScale) * (b % BoostScale) + (a % BoostScale) * (b \div BoostScale))
               + ((a % BoostScale) * (b % BoostScale)) \div BoostScale) \div BoostScale

\* The terms k, k + 1, ... of the series of Math.exp(-x / 10000) for
\* 0 <= x < 10000, with their signs, in units of 1 / FineScale; term is the
\* term k - 1 without its sign.  They are added up until they vanish.
RECURSIVE ExpSeries(_, _, _)
ExpSeries(x, k, term) ==
    LET After(next) ==
            IF next = 0 THEN 0
            ELSE (IF k % 2 = 1 THEN 0 - next ELSE next) + ExpSeries(x, k + 1, next)
    IN TheOne({After(next) :
                  next \in {((term \div 10000) * x + ((term % 10000) * x) \div 10000) \div k}})

\* Math.exp(-daysElapsed / 10000) for daysElapsed >= 0 in units of
\* 1 / FineScale: a factor Math.exp(-1) for every 10000 days, the series of
\* the exponential for the rest.
RECURSIVE ExpFine(_)
ExpFine(daysElapsed) ==
    IF daysElapsed >= 10000
    THEN TheOne({MulFine(rest, ExpMinusOne) : rest \in {ExpFine(daysElapsed - 10000)}})
    ELSE FineScale + ExpSeries(daysElapsed, 1, FineScale)

\* Math.exp(-0.1 * daysElapsed / 1000), that is Math.exp(-daysElapsed / 10000),
\* for daysElapsed >= 0, to the nearest 1 / BoostScale.
ExpNeg(daysElapsed) == (ExpFine(daysElapsed) + BoostScale \div 2) \div BoostScale

\* boostDocument: 1 without an mtime, else 1 + Math.exp(-0.1 * daysElapsed / 1000)
\* with daysElapsed = (Date.now() - mtime) / (1000 * 60 * 60 * 24).
boostDocument(mtime) ==
    IF mtime = 0 THEN BoostScale ELSE BoostScale + ExpNeg(DateNow - mtime)

\* Some term of the field's text matches the query term.
TextMatches(text, term) == \E token \in TermsOf(text) : TermMatches(term, token)

\* The terms of the chat's search queries, and the pairs of such a term and a
\* text of the chat vaults' fields it matches in, found once.
ChatTerms == TermsTable["plan"] \cup TermsTable["my plan"]

MatchedTexts ==
    {pair \in {<<term, text>> : term \in ChatTerms, text \in ChatFieldTexts} :
        TextMatches(pair[2], pair[1])}

\* The fields of doc in which some term matches the query term.
MatchingFields(doc, term) ==
    {k \in 1..Len(Fields) :
        \E text \in {FieldOf(doc, Fields[k])} :
            IF term \in ChatTerms /\ text \in ChatFieldTexts
            THEN <<term, text>> \in MatchedTexts
            ELSE TextMatches(text, term)}

RECURSIVE SumBoost(_)
SumBoost(ks) ==
    IF ks = {} THEN 0
    ELSE LET k == CHOOSE x \in ks : TRUE
         IN FieldBoost[Fields[k]] + SumBoost(ks \ {k})

RECURSIVE SumTerms(_, _)
SumTerms(doc, terms) ==
    IF terms = {} THEN 0
    ELSE LET term == CHOOSE t \in terms : TRUE
         IN SumBoost(MatchingFields(doc, term)) + SumTerms(doc, terms \ {term})

\* What the search library makes of a document's matches by its own term
\* statistics (BM25) and by the weights it gives prefix and fuzzy matches.
\* The library is not part of the source: the factor is any of these,
\* document by document and search by search.
Relevances == {1, 2}

\* The score of a document (combineWith OR): over the query terms and the
\* fields they match in, the boost of the field times the boost of the
\* document times the library's own factor, in units of 1 / Scale.
MiniScore(doc, query, relevance) ==
    (((boostDocument(doc.mtime) * SumTerms(doc, TermsOf(query))) \div 10) * relevance * Scale)
        \div BoostScale

InsertByKeywordScore(sorted, x) ==
    LET p == Cardinality({k \in 1..Len(sorted) : sorted[k].score >= x.score})
    IN SubSeq(sorted, 1, p) \o <<x>> \o SubSeq(sorted, p + 1, Len(sorted))

\* The insertions of hits[lo..hi] into sorted, in order: the turns lo..mid run
\* first and their value (half) feeds the turns mid+1..hi.
RECURSIVE SortHitsRange(_, _, _, _)
SortHitsRange(sorted, hits, lo, hi) ==
    IF lo > hi THEN sorted
    ELSE IF lo = hi THEN InsertByKeywordScore(sorted, hits[lo])
    ELSE LET mid == (lo + hi) \div 2
         IN TheOne({SortHitsRange(half, hits, mid + 1, hi) :
                       half \in {SortHitsRange(sorted, hits, lo, mid)}})

SortHits(sorted, hits) == SortHitsRange(sorted, hits, 1, Len(hits))

\* miniSearch.search(query, ...): the matching documents, best score first;
\* relevance[k] is the library's factor for the k-th document of the index.
MiniSearchResults(index, query, relevance) ==
    LET Scored(k) == [id |-> index[k].id,
                      score |-> MiniScore(index[k], query, relevance[k])]
        Sorted(hits) == SortHits(<<>>, hits)
    IN TheOne({Sorted(hits) :
                  hits \in {SelectSeq(Take([k \in 1..Len(index) |-> Scored(k)], Len(index)),
                                      LAMBDA r : r.score > 0)}})

DefaultTopK == 30

\* miniResults.slice(0, topK).map(r => ({ id, content, path, score, keywordScore, source }))
WorkerCandidates(docs, miniResults, topK) ==
    LET top == Take(miniResults, topK)
        Mapped(r) ==
            LET Known(doc) ==
                    [id |-> r.id, content |-> doc.content, path |-> doc.path,
                     score |-> r.score, keywordScore |-> r.score, source |-> "keyword"]
            IN IF MapHas(docs, r.id) THEN TheOne({Known(doc) : doc \in {MapGet(docs, r.id)}})
               ELSE [id |-> r.id, content |-> "Unknown", path |-> r.id,
                     score |-> r.score, keywordScore |-> r.score, source |-> "keyword"]
    IN Take([k \in 1..Len(top) |-> Mapped(top[k])], Len(top))

\* metaData.mtime || Date.now()
DocMtime(meta) == IF meta.mtime = 0 THEN DateNow ELSE meta.mtime

\* metaData.aliases || '', and the same for h1, h2, h3, tags, urls, links
OrEmpty(value) == IF value = Undefined THEN "" ELSE value

\* metaData.basename || metaData.filePath?.split('/').pop()?.replace(/\.md$/, '') || 'Untitled'
DocBasename(meta) ==
    LET derived == IF meta.filePath = Undefined THEN "" ELSE WithoutMd(LastSegment(meta.filePath))
    IN IF meta.basename # Undefined /\ meta.basename # "" THEN meta.basename
       ELSE IF derived # "" THEN derived
       ELSE "Untitled"

\* const doc = { id: docId, basename, aliases, path, content, h1, h2, h3,
\* tags, urls, links, mtime, frontmatter }: the document the index is given.
IndexedDoc(payload) ==
    [id |-> payload.id, basename |-> DocBasename(payload.meta),
     aliases |-> OrEmpty(payload.meta.aliases),
     path |-> OrEmpty(payload.meta.filePath), content |-> payload.content,
     h1 |-> OrEmpty(payload.meta.h1), h2 |-> OrEmpty(payload.meta.h2),
     h3 |-> OrEmpty(payload.meta.h3), tags |-> OrEmpty(payload.meta.tags),
     urls |-> OrEmpty(payload.meta.urls), links |-> OrEmpty(payload.meta.links),
     mtime |-> DocMtime(payload.meta), frontmatter |-> payload.meta.frontmatter]

\* What handling one message makes of the worker's state w = [documents,
\* miniSearch], and the response it posts.
Handled(w, response) ==
    [documents |-> w.documents, miniSearch |-> w.miniSearch, response |-> response]

\* An index that would add the document to the search index without storing it.
HandleIndexWithoutStore(w, id, payload) ==
    LET doc == IndexedDoc(payload)
        stored == [id |-> payload.id, title |-> doc.basename, path |-> doc.path,
                   content |-> payload.content]
        index == IF MiniHas(w.miniSearch, payload.id)
                 THEN MiniReplace(w.miniSearch, doc)
                 ELSE MiniAdd(w.miniSearch, doc)
    IN IF ~payload.defined
       THEN Handled(w, ErrorResponse(id, "Cannot destructure property 'id' of 'payload' as it is undefined."))
       ELSE IF ~payload.meta.defined
       THEN Handled(w, ErrorResponse(id, "Cannot read properties of undefined (reading 'basename')"))
       ELSE IF payload.id = Undefined
       THEN Handled(w, ErrorResponse(id, "MiniSearch: document does not have ID field \"id\""))
       ELSE Handled([documents |-> w.documents, miniSearch |-> index],
                    SuccessResponse(id, [NoData EXCEPT !.message = "Indexed",
                                                       !.docId = payload.id]))

HandleIndex(w, id, payload) ==
    LET doc == IndexedDoc(payload)
        stored == [id |-> payload.id, title |-> doc.basename, path |-> doc.path,
                   content |-> payload.content]
        index == IF MiniHas(w.miniSearch, payload.id)
                 THEN MiniReplace(w.miniSearch, doc)
                 ELSE MiniAdd(w.miniSearch, doc)
    IN IF ~payload.defined
       THEN Handled(w, ErrorResponse(id, "Cannot destructure property 'id' of 'payload' as it is undefined."))
       ELSE IF ~payload.meta.defined
       THEN Handled(w, ErrorResponse(id, "Cannot read properties of undefined (reading 'basename')"))
       ELSE IF payload.id = Undefined
       THEN Handled(w, ErrorResponse(id, "MiniSearch: document does not have ID field \"id\""))
       ELSE Handled([documents |-> MapSet(w.documents, stored), miniSearch |-> index],
                    SuccessResponse(id, [NoData EXCEPT !.message = "Indexed",
                                                       !.docId = payload.id]))

\* A delete that would answer without removing anything.
HandleDeleteKeepsAll(w, id, payload) ==
    LET idsToDelete == SelectSeq(w.documents, LAMBDA doc : doc.path = payload.path)
    IN IF ~payload.defined
       THEN Handled(w, ErrorResponse(id, "Cannot destructure property 'path' of 'payload' as it is undefined."))
       ELSE Handled(w, SuccessResponse(id, [NoData EXCEPT !.message = "Deleted",
                                                          !.count = Len(idsToDelete)]))

\* A delete that would stop at the first document of the path.
HandleDeleteFirstOnly(w, id, payload) ==
    LET Goes(doc) == doc.path = payload.path
        idsToDelete == Take(SelectSeq(w.documents, Goes), 1)
        Stays(doc) == ~\E k \in 1..Len(idsToDelete) : idsToDelete[k].id = doc.id
    IN IF ~payload.defined
       THEN Handled(w, ErrorResponse(id, "Cannot destructure property 'path' of 'payload' as it is undefined."))
       ELSE Handled([documents |-> SelectSeq(w.documents, Stays),
                     miniSearch |-> SelectSeq(w.miniSearch, Stays)],
                    SuccessResponse(id, [NoData EXCEPT !.message = "Deleted",
                                                       !.count = Len(idsToDelete)]))

HandleDelete(w, id, payload) ==
    LET Stays(doc) == doc.path # payload.path
        Goes(doc) == doc.path = payload.path
        idsToDelete == SelectSeq(w.documents, Goes)
        index == SelectSeq(w.miniSearch,
                           LAMBDA d : ~\E k \in 1..Len(idsToDelete) : idsToDelete[k].id = d.id)
    IN IF ~payload.defined
       THEN Handled(w, ErrorResponse(id, "Cannot destructure property 'path' of 'payload' as it is undefined."))
       ELSE Handled([documents |-> SelectSeq(w.documents, Stays), miniSearch |-> index],
                    SuccessResponse(id, [NoData EXCEPT !.message = "Deleted",
                                                       !.count = Len(idsToDelete)]))

HandleSearch(w, id, payload, relevance) ==
    LET topK == IF payload.topK = 0 THEN DefaultTopK ELSE payload.topK
        miniResults == MiniSearchResults(w.miniSearch, payload.query, relevance)
    IN IF ~payload.defined
       THEN Handled(w, ErrorResponse(id, "Cannot destructure property 'query' of 'payload' as it is undefined."))
       ELSE IF payload.query = Undefined
       THEN Handled(w, ErrorResponse(id, "Cannot read properties of undefined (reading 'queries')"))
       ELSE Handled(w, SuccessResponse(id,
                [NoData EXCEPT !.results = WorkerCandidates(w.documents, miniResults, topK)]))

\* self.onmessage; relevance is what the library makes of each indexed
\* document in a search.
OnMessage(w, msg, relevance) ==
    CASE msg.command = "init" ->
           Handled(w, SuccessResponse(msg.id, [NoData EXCEPT !.message = "Worker initialized"]))
      [] msg.command = "index" -> HandleIndex(w, msg.id, msg.payload)
      [] msg.command = "delete" -> HandleDelete(w, msg.id, msg.payload)
      [] msg.command = "search" -> HandleSearch(w, msg.id, msg.payload, relevance)
      [] OTHER -> Handled(w, ErrorResponse(msg.id, "Unknown command: " \o msg.command))

(***************************************************************************)
(* The vault and the Indexer.  A file's content is the list of its          *)
(* paragraphs (the pieces between blank lines); the chunker makes one      *)
(* chunk of each.                                                          *)
(***************************************************************************)
Files == {"a.md", "b.md"}

NoFile == [exists |-> FALSE, content |-> <<>>, mtime |-> 0]

\* A file of the vault: its content and its stat.mtime.
File(content, mtime) == [exists |-> TRUE, content |-> content, mtime |-> mtime]

\* The times a file can have been modified at: a year ago, or today.
FileTimes == {DateNow - 365, DateNow}

FileContents == {<<"plan a">>, <<"plan b", " later ">>, <<"  ", "plan c">>}

FallbackChunkLen == 600

\* The fallback of chunkContent: the paragraphs that are not blank, numbered
\* after the blank ones are dropped, trimmed and cut at 600 characters.
FallbackChunks(content, filePath, mtime) ==
    LET paragraphs == SelectSeq(content, LAMBDA para : Len(trim(para)) > 0)
    IN [k \in 1..Len(paragraphs) |->
          [id |-> filePath \o "::" \o ToString(k - 1),
           text |-> Slice(trim(paragraphs[k]), 1, FallbackChunkLen),
           meta |-> MetaOf(content, filePath, k - 1, mtime)]]

\* chunkContent.  The chunker returns its chunks: ids `${filePath}::${index}`
\* numbered before the empty chunks are dropped, trimmed text.  The chunker
\* throws: the fallback, over the paragraphs of the content.
chunkContent(content, filePath, mtime, chunkerThrows) ==
    LET chunks == [k \in 1..Len(content) |->
                      [id |-> filePath \o "::" \o ToString(k - 1),
                       text |-> trim(content[k]),
                       meta |-> MetaOf(content, filePath, k - 1, mtime)]]
    IN IF chunkerThrows THEN FallbackChunks(content, filePath, mtime)
       ELSE SelectSeq(chunks, LAMBDA chunk : Len(chunk.text) > 0)

\* the messages of the loop over the chunks in indexFile
IndexMessages(chunks) ==
    [k \in 1..Len(chunks) |->
        WorkerMessage("index", chunks[k].id,
                      IndexPayload(chunks[k].id, chunks[k].text, chunks[k].meta))]

\* the message of Indexer.deleteFile
DeleteMessage(path) == WorkerMessage("delete", "delete-" \o path, DeletePayload(path))

(***************************************************************************)
(* The state of one chatStream run.                                        *)
(***************************************************************************)
VARIABLES
    userQuery,       \* the raw query handed to chatStream
    parsedQuery,     \* parseQuery(userQuery)
    generatedQuery,  \* what generateQuery returned
    pc,              \* where chatStream (and the rerank generator it drives) stands
    events,          \* the AgentEvents chatStream has yielded, in order
    searchEvents,    \* the events searchVaultWithProgress has yielded, in order
    candidates,      \* the lexical candidates the search returned
    queryEmbedding,  \* the query vector
    scoredChunks,    \* scoredChunks of the batch loop
    embedOutcome,    \* per processed chunk: "skipped", "ok" or "failed"
    unboosted,       \* filteredChunks before the tag boost
    filteredChunks,  \* filteredChunks as grouping reads it
    searchResults,   \* searchResults of chatStream
    searchStatus,    \* "none", then "ok" or "failed": how the lexical search ended
    calls,           \* requests made so far: chat, chatStream, search, embed
    failures,        \* embedding calls that have failed in this run
    tokens           \* tokens the current chat stream has produced

\* The index worker, the Indexer and the SearchService of the plugin.
VARIABLES
    documents,       \* the worker's documents Map, in insertion order
    miniSearch,      \* the documents the worker's search index holds
    inbox,           \* messages posted to the worker and not yet handled, oldest first
    responses,       \* every response the worker has posted, in order
    handled,         \* the messages the worker has handled, in order
    deletedPaths,    \* paths deleted and not indexed again since
    posted,          \* how many messages were posted straight to the worker
    vault,           \* per file of the vault: whether it exists, and its chunks
    indexCalls,      \* the indexFile calls that have not returned
    vaultEvents,     \* how many vault events have fired
    pendingRequests, \* the keys of SearchService.pendingRequests
    idCounter,       \* SearchService.idCounter
    requests,        \* the search and indexDocument calls made on the SearchService
    delivered        \* how many responses the SearchService listener has seen

VARIABLES
    failedRuns,      \* how many chatStream calls on this agent ended with an error
    rawTokens,       \* the tokens the raw query was typed as
    rawQuery,        \* the argument of parseQuery
    parsed,          \* parseQuery(rawQuery)
    reparsed,        \* parseQuery(parsed.text.join(' '))
    parserPc,        \* which of the pure functions has been applied
    filterCase,      \* a result handed to matchesFilters, and the verdict
    triaged          \* a model output handed to generateQuery's parsing, and the result

\* The parts of the plugin that are run on their own.
VARIABLES
    unitPc,          \* which part has been called, and whether it has returned
    tokenizerInput,  \* the string handed to the tokenizer
    tokenizerOutput, \* the tokens it returned
    buildFiles,      \* files of buildIndex: the markdown files of the vault
    processedCount,  \* processedCount of buildIndex
    progressCalls,   \* the calls of onProgress, in order
    embedPrompt,     \* prompt of getEmbeddings
    retries,         \* retries of getEmbeddings
    attempt,         \* attempt of the retry loop
    attemptLog,      \* how each request to the embedding service ended, in order
    waits,           \* the waitTime of every backoff timer set, in order
    embedResult      \* what getEmbeddings returned or threw

agentVars ==
    <<userQuery, parsedQuery, generatedQuery, pc, events, searchEvents, candidates,
      queryEmbedding, scoredChunks, embedOutcome, unboosted, filteredChunks,
      searchResults, searchStatus, calls, failures, tokens>>

workerVars == <<documents, miniSearch, inbox, responses, handled, deletedPaths>>

indexerVars == <<posted, vault, indexCalls, vaultEvents>>

serviceVars == <<pendingRequests, idCounter, requests, delivered>>

runVars == <<failedRuns>>

parserVars == <<rawTokens, rawQuery, parsed, reparsed, parserPc, filterCase, triaged>>

buildVars == <<buildFiles, processedCount, progressCalls>>

embedVars == <<embedPrompt, retries, attempt, attemptLog, waits, embedResult>>

unitVars == <<unitPc, tokenizerInput, tokenizerOutput, buildVars, embedVars>>

vars == <<agentVars, workerVars, indexerVars, serviceVars, runVars, parserVars, unitVars>>

Thought(text) == [type |-> "thought", content |-> text]

\* A token that would go out as a sources event.
TokenAsSources(text) == [type |-> "sources", content |-> text]

Token(text) == [type |-> "token", content |-> text]

Sources(docs) == [type |-> "sources", content |-> docs]

Done == [type |-> "done"]

\* A progress event that would report the total as the current count.
ProgressEventAtTotal(current, total) ==
    [type |-> "progress", content |-> [current |-> total, total |-> total]]

ProgressEvent(current, total) ==
    [type |-> "progress", content |-> [current |-> current, total |-> total]]

ResultEvent(docs) == [type |-> "result", content |-> docs]

SearchErrorText == "I encountered an error while searching your vault."

\* A no-notes answer worded like the search error.
NoNotesAsSearchError == "I encountered an error while searching your vault."

NoNotesText ==
    "I couldn't find any relevant notes in your vault regarding this topic. "
        \o "Would you like to search for something else or add notes about this?"

\* A loop body that would hand the result on as a sources event at once.
ForwardResultAsSources(evs, event) ==
    IF event.type = "progress" THEN Append(evs, ProgressEvent(event.content.current, event.content.total))
    ELSE IF event.type = "result" THEN Append(evs, Sources(event.content))
    ELSE evs

\* The body of chatStream's for-await loop over the rerank events.
ForwardEvent(evs, event) ==
    IF event.type = "progress" THEN Append(evs, ProgressEvent(event.content.current, event.content.total))
    ELSE evs

ReceiveResult(results, event) ==
    IF event.type = "result" THEN event.content ELSE results

\* No result has been handed to matchesFilters, no output to the triage parsing.
NoFilterCase == [id |-> "", path |-> "", content |-> "", verdict |-> FALSE]

NoTriage == [output |-> "", result |-> ""]

\* The pure functions have not been called.
ParserIdle ==
    /\ rawTokens = <<>>
    /\ rawQuery = ""
    /\ parsed = EmptyParsedQuery
    /\ reparsed = EmptyParsedQuery
    /\ parserPc = "idle"
    /\ filterCase = NoFilterCase
    /\ triaged = NoTriage

\* A fresh agent, and the first chatStream call.
RunInit ==
    /\ userQuery \in UserQueries
    /\ parsedQuery = EmptyParsedQuery
    /\ generatedQuery = ""
    /\ pc = "start"
    /\ events = <<>>
    /\ searchEvents = <<>>
    /\ candidates = <<>>
    /\ queryEmbedding = <<>>
    /\ scoredChunks = <<>>
    /\ embedOutcome = <<>>
    /\ unboosted = <<>>
    /\ filteredChunks = <<>>
    /\ searchResults = <<>>
    /\ searchStatus = "none"
    /\ calls = [chat |-> 0, chatStream |-> 0, search |-> 0, embed |-> 0]
    /\ failures = 0
    /\ tokens = 0
    /\ failedRuns = 0

\* The plugin is loaded: a fresh agent, Indexer and SearchService, a worker
\* that initWorker has posted its init message to, and the first chatStream call.
SessionInit ==
    /\ RunInit
    /\ documents = <<>>
    /\ miniSearch = <<>>
    /\ inbox = <<InitMessage>>
    /\ responses = <<>>
    /\ handled = <<>>
    /\ deletedPaths = {}
    /\ posted = 0
    /\ vault = [f \in Files |-> NoFile]
    /\ indexCalls = {}
    /\ vaultEvents = 0
    /\ pendingRequests = {}
    /\ idCounter = 0
    /\ requests = <<>>
    /\ delivered = 0

DefaultRetries == 3

NoResult == [status |-> "pending", value |-> <<>>, error |-> ""]

\* getEmbeddings has not been called on its own.
EmbedIdle ==
    /\ embedPrompt = ""
    /\ retries = DefaultRetries
    /\ attempt = 0
    /\ attemptLog = <<>>
    /\ waits = <<>>
    /\ embedResult = NoResult

\* No part has been called on its own.
UnitIdle ==
    /\ unitPc = "idle"
    /\ tokenizerInput = ""
    /\ tokenizerOutput = <<>>
    /\ buildFiles = <<>>
    /\ processedCount = 0
    /\ progressCalls = <<>>
    /\ EmbedIdle

Init == SessionInit /\ ParserIdle /\ UnitIdle

\* A chatStream that would close a failed call with a done event.
RaiseAsDone(evs) == Append(evs, [type |-> "done"])

\* An error thrown inside chatStream leaves the generator: nothing more is yielded.
Raise(evs) == evs

\* chatStream up to the triage call.
ChatStreamStart ==
    /\ pc = "start"
    /\ parsedQuery' = parseQuery(userQuery)
    /\ events' = Append(events, Thought("Analyzing your intent..."))
    /\ pc' = "triage"
    /\ UNCHANGED <<workerVars, indexerVars, serviceVars, runVars, parserVars, unitVars>>
    /\ UNCHANGED <<searchStatus, userQuery, generatedQuery, searchEvents, candidates, queryEmbedding,
                   scoredChunks, embedOutcome, unboosted, filteredChunks, searchResults,
                   calls, failures, tokens>>

\* generateQuery returns; chatStream yields the thought of the direct-chat
\* branch, or the thought that tells the search query.
Triage ==
    /\ pc = "triage"
    /\ \E response \in TriageResponses :
         LET generated == generateQuery(TriageInput(userQuery, parsedQuery), response)
         IN /\ generatedQuery' = generated
            /\ calls' = [calls EXCEPT !.chat = @ + 1]
            /\ IF SkipsSearch(generated)
               THEN /\ events' = Append(events, Thought("Direct chat (no vault search needed)..."))
                    /\ pc' = "directChat"
               ELSE /\ events' = Append(events, Thought("Search Query: \"" \o generated \o "\""))
                    /\ pc' = "announce"
    /\ UNCHANGED <<workerVars, indexerVars, serviceVars, runVars, parserVars, unitVars>>
    /\ UNCHANGED <<searchStatus, userQuery, parsedQuery, searchEvents, candidates, queryEmbedding,
                   scoredChunks, embedOutcome, unboosted, filteredChunks, searchResults,
                   failures, tokens>>

\* Resumed after the direct-chat thought: the chat stream is opened.
DirectStart ==
    /\ pc = "directChat"
    /\ calls' = [calls EXCEPT !.chatStream = @ + 1]
    /\ pc' = "direct"
    /\ UNCHANGED <<workerVars, indexerVars, serviceVars, runVars, parserVars, unitVars>>
    /\ UNCHANGED <<searchStatus, userQuery, parsedQuery, generatedQuery, events, searchEvents,
                   candidates, queryEmbedding, scoredChunks, embedOutcome, unboosted,
                   filteredChunks, searchResults, failures, tokens>>

\* Resumed after the search-query thought: the thought that the vault is searched.
AnnounceSearch ==
    /\ pc = "announce"
    /\ events' = Append(events, Thought("Searching vault for relevant notes..."))
    /\ pc' = "search"
    /\ UNCHANGED <<workerVars, indexerVars, serviceVars, runVars, parserVars, unitVars>>
    /\ UNCHANGED <<searchStatus, userQuery, parsedQuery, generatedQuery, searchEvents,
                   candidates, queryEmbedding, scoredChunks, embedOutcome, unboosted,
                   filteredChunks, searchResults, calls, failures, tokens>>

\* The triage chat call throws: nothing in chatStream catches it.
TriageFail ==
    /\ pc = "triage"
    /\ calls' = [calls EXCEPT !.chat = @ + 1]
    /\ pc' = "failed"
    /\ events' = Raise(events)
    /\ UNCHANGED <<workerVars, indexerVars, serviceVars, runVars, parserVars, unitVars>>
    /\ UNCHANGED <<searchStatus, userQuery, parsedQuery, generatedQuery, searchEvents, candidates,
                   queryEmbedding, scoredChunks, embedOutcome, unboosted, filteredChunks,
                   searchResults, failures, tokens>>

\* One token of the direct chat stream.
DirectToken ==
    /\ pc = "direct"
    /\ tokens < MaxTokens
    /\ events' = Append(events, Token("tok"))
    /\ tokens' = tokens + 1
    /\ UNCHANGED <<workerVars, indexerVars, serviceVars, runVars, parserVars, unitVars>>
    /\ UNCHANGED <<searchStatus, userQuery, parsedQuery, generatedQuery, pc, searchEvents, candidates,
                   queryEmbedding, scoredChunks, embedOutcome, unboosted, filteredChunks,
                   searchResults, calls, failures>>

DirectDone ==
    /\ pc = "direct"
    /\ events' = Append(events, Done)
    /\ pc' = "done"
    /\ UNCHANGED <<workerVars, indexerVars, serviceVars, runVars, parserVars, unitVars>>
    /\ UNCHANGED <<searchStatus, userQuery, parsedQuery, generatedQuery, searchEvents, candidates,
                   queryEmbedding, scoredChunks, embedOutcome, unboosted, filteredChunks,
                   searchResults, calls, failures, tokens>>

\* The chat service fails while the direct answer streams.
DirectFail ==
    /\ pc = "direct"
    /\ pc' = "failed"
    /\ events' = Raise(events)
    /\ UNCHANGED <<workerVars, indexerVars, serviceVars, runVars, parserVars, unitVars>>
    /\ UNCHANGED <<searchStatus, userQuery, parsedQuery, generatedQuery, searchEvents, candidates,
                   queryEmbedding, scoredChunks, embedOutcome, unboosted, filteredChunks,
                   searchResults, calls, failures, tokens>>

\* Resumed after the error text: done, and the catch returns.
SearchFailDone ==
    /\ pc = "searchFailed"
    /\ events' = Append(events, Done)
    /\ pc' = "done"
    /\ UNCHANGED <<workerVars, indexerVars, serviceVars, runVars, parserVars, unitVars>>
    /\ UNCHANGED <<searchStatus, userQuery, parsedQuery, generatedQuery, searchEvents,
                   candidates, queryEmbedding, scoredChunks, embedOutcome, unboosted,
                   filteredChunks, searchResults, calls, failures, tokens>>

\* A rerank that would yield its result twice.
YieldResultTwice(docs) ==
    /\ searchEvents' = searchEvents \o <<[type |-> "result", content |-> docs],
                                           [type |-> "result", content |-> docs]>>
    /\ events' = events
    /\ searchResults' = docs
    /\ pc' = "searched"

\* The body of the rerank generator's yield of a result, and chatStream receiving it.
YieldResult(docs) ==
    /\ searchEvents' = Append(searchEvents, ResultEvent(docs))
    /\ events' = ForwardEvent(events, ResultEvent(docs))
    /\ searchResults' = ReceiveResult(searchResults, ResultEvent(docs))
    /\ pc' = "searched"

ZeroCandidates ==
    /\ pc = "fetched"
    /\ Len(candidates) = 0
    /\ YieldResult(<<>>)
    /\ UNCHANGED <<workerVars, indexerVars, serviceVars, runVars, parserVars, unitVars>>
    /\ UNCHANGED <<searchStatus, userQuery, parsedQuery, generatedQuery, candidates, queryEmbedding,
                   scoredChunks, embedOutcome, unboosted, filteredChunks, calls,
                   failures, tokens>>

EmbedQuery ==
    /\ pc = "fetched"
    /\ Len(candidates) > 0
    /\ queryEmbedding' = EmbeddingOf(generatedQuery)
    /\ calls' = [calls EXCEPT !.embed = @ + 1]
    /\ pc' = "embedding"
    /\ UNCHANGED <<workerVars, indexerVars, serviceVars, runVars, parserVars, unitVars>>
    /\ UNCHANGED <<searchStatus, userQuery, parsedQuery, generatedQuery, events, searchEvents, candidates,
                   scoredChunks, embedOutcome, unboosted, filteredChunks, searchResults,
                   failures, tokens>>

\* The query embedding throws (or yields no vector): the outer catch falls back.
EmbedQueryFail ==
    /\ pc = "fetched"
    /\ Len(candidates) > 0
    /\ calls' = [calls EXCEPT !.embed = @ + 1]
    /\ YieldResult(Fallback(candidates))
    /\ UNCHANGED <<workerVars, indexerVars, serviceVars, runVars, parserVars, unitVars>>
    /\ UNCHANGED <<searchStatus, userQuery, parsedQuery, generatedQuery, candidates, queryEmbedding,
                   scoredChunks, embedOutcome, unboosted, filteredChunks, failures, tokens>>

\* One turn of the batch loop (BATCH_SIZE = 1): score the chunk, yield the progress.
EmbedChunk ==
    /\ pc = "embedding"
    /\ Len(scoredChunks) < Len(candidates)
    /\ LET i == Len(scoredChunks)
           chunk == candidates[i + 1]
           cleanContent == CleanContent(chunk)
           progress == ProgressEvent(i + BATCH_SIZE, Len(candidates))
       IN /\ \/ /\ Len(cleanContent) = 0
                /\ scoredChunks' = Append(scoredChunks, SkippedChunk(chunk))
                /\ embedOutcome' = Append(embedOutcome, "skipped")
                /\ UNCHANGED <<calls, failures>>
             \/ /\ Len(cleanContent) > 0
                /\ scoredChunks' = Append(scoredChunks,
                       EmbeddedChunk(chunk, queryEmbedding, EmbeddingOf(cleanContent)))
                /\ embedOutcome' = Append(embedOutcome, "ok")
                /\ calls' = [calls EXCEPT !.embed = @ + 1]
                /\ UNCHANGED failures
             \/ /\ Len(cleanContent) > 0
                /\ failures < MaxEmbedFailures
                /\ i < MaxFailIndex
                /\ scoredChunks' = Append(scoredChunks, FailedChunk(chunk))
                /\ embedOutcome' = Append(embedOutcome, "failed")
                /\ calls' = [calls EXCEPT !.embed = @ + 1]
                /\ failures' = failures + 1
          /\ searchEvents' = Append(searchEvents, progress)
          /\ events' = ForwardEvent(events, progress)
          /\ searchResults' = ReceiveResult(searchResults, progress)
    /\ UNCHANGED <<workerVars, indexerVars, serviceVars, runVars, parserVars, unitVars>>
    /\ UNCHANGED <<searchStatus, userQuery, parsedQuery, generatedQuery, pc, candidates, queryEmbedding,
                   unboosted, filteredChunks, tokens>>

\* After the loop: sort, filter, boost, group, yield the result.
Rank ==
    /\ pc = "embedding"
    /\ Len(scoredChunks) = Len(candidates)
    /\ LET sorted == SortByFinalScore(scoredChunks)
           filtered == ApplyFilters(sorted, parsedQuery)
           ranked == TagBoost(filtered, parsedQuery)
       IN /\ scoredChunks' = Aliased(sorted, ranked, parsedQuery)
          /\ unboosted' = filtered
          /\ filteredChunks' = ranked
          /\ YieldResult(SelectTopDocs(ranked))
    /\ UNCHANGED <<workerVars, indexerVars, serviceVars, runVars, parserVars, unitVars>>
    /\ UNCHANGED <<searchStatus, userQuery, parsedQuery, generatedQuery, candidates, queryEmbedding,
                   embedOutcome, calls, failures, tokens>>

\* chatStream once the rerank generator has returned: with results the
\* thought that the embedding is complete, without any the no-notes text.
AfterSearch ==
    /\ pc = "searched"
    /\ IF Len(searchResults) = 0
       THEN /\ events' = Append(events, Token(NoNotesText))
            /\ pc' = "noNotes"
       ELSE /\ events' = Append(events, Thought("Embedding complete"))
            /\ pc' = "complete"
    /\ UNCHANGED <<workerVars, indexerVars, serviceVars, runVars, parserVars, unitVars>>
    /\ UNCHANGED <<searchStatus, userQuery, parsedQuery, generatedQuery, searchEvents, candidates,
                   queryEmbedding, scoredChunks, embedOutcome, unboosted, filteredChunks,
                   searchResults, calls, failures, tokens>>

\* Resumed after the no-notes text: done, and chatStream returns.
NoNotesDone ==
    /\ pc = "noNotes"
    /\ events' = Append(events, Done)
    /\ pc' = "done"
    /\ UNCHANGED <<workerVars, indexerVars, serviceVars, runVars, parserVars, unitVars>>
    /\ UNCHANGED <<searchStatus, userQuery, parsedQuery, generatedQuery, searchEvents, candidates,
                   queryEmbedding, scoredChunks, embedOutcome, unboosted, filteredChunks,
                   searchResults, calls, failures, tokens>>

\* Resumed after "Embedding complete": the sources event.
EmitSources ==
    /\ pc = "complete"
    /\ events' = Append(events, Sources(searchResults))
    /\ pc' = "sourced"
    /\ UNCHANGED <<workerVars, indexerVars, serviceVars, runVars, parserVars, unitVars>>
    /\ UNCHANGED <<searchStatus, userQuery, parsedQuery, generatedQuery, searchEvents, candidates,
                   queryEmbedding, scoredChunks, embedOutcome, unboosted, filteredChunks,
                   searchResults, calls, failures, tokens>>

\* Resumed after the sources: the context is built, the thought of the synthesis.
Synthesize ==
    /\ pc = "sourced"
    /\ events' = Append(events, Thought("Synthesizing answer with citations..."))
    /\ pc' = "synthesis"
    /\ UNCHANGED <<workerVars, indexerVars, serviceVars, runVars, parserVars, unitVars>>
    /\ UNCHANGED <<searchStatus, userQuery, parsedQuery, generatedQuery, searchEvents, candidates,
                   queryEmbedding, scoredChunks, embedOutcome, unboosted, filteredChunks,
                   searchResults, calls, failures, tokens>>

\* Resumed after that thought: the chat stream of the answer is opened.
AnswerStart ==
    /\ pc = "synthesis"
    /\ calls' = [calls EXCEPT !.chatStream = @ + 1]
    /\ pc' = "answer"
    /\ UNCHANGED <<workerVars, indexerVars, serviceVars, runVars, parserVars, unitVars>>
    /\ UNCHANGED <<searchStatus, userQuery, parsedQuery, generatedQuery, events, searchEvents,
                   candidates, queryEmbedding, scoredChunks, embedOutcome, unboosted,
                   filteredChunks, searchResults, failures, tokens>>

AnswerToken ==
    /\ pc = "answer"
    /\ tokens < MaxTokens
    /\ events' = Append(events, Token("tok"))
    /\ tokens' = tokens + 1
    /\ UNCHANGED <<workerVars, indexerVars, serviceVars, runVars, parserVars, unitVars>>
    /\ UNCHANGED <<searchStatus, userQuery, parsedQuery, generatedQuery, pc, searchEvents, candidates,
                   queryEmbedding, scoredChunks, embedOutcome, unboosted, filteredChunks,
                   searchResults, calls, failures>>

\* An answer that would end without its done event.
AnswerEndsSilently ==
    /\ pc = "answer"
    /\ pc' = "done"
    /\ UNCHANGED <<workerVars, indexerVars, serviceVars, runVars, parserVars, unitVars>>
    /\ UNCHANGED <<searchStatus, userQuery, parsedQuery, generatedQuery, events, searchEvents,
                   candidates, queryEmbedding, scoredChunks, embedOutcome, unboosted,
                   filteredChunks, searchResults, calls, failures, tokens>>

AnswerDone ==
    /\ pc = "answer"
    /\ events' = Append(events, Done)
    /\ pc' = "done"
    /\ UNCHANGED <<workerVars, indexerVars, serviceVars, runVars, parserVars, unitVars>>
    /\ UNCHANGED <<searchStatus, userQuery, parsedQuery, generatedQuery, searchEvents, candidates,
                   queryEmbedding, scoredChunks, embedOutcome, unboosted, filteredChunks,
                   searchResults, calls, failures, tokens>>

\* The chat service fails while the answer streams.
AnswerFail ==
    /\ pc = "answer"
    /\ pc' = "failed"
    /\ events' = Raise(events)
    /\ UNCHANGED <<workerVars, indexerVars, serviceVars, runVars, parserVars, unitVars>>
    /\ UNCHANGED <<searchStatus, userQuery, parsedQuery, generatedQuery, searchEvents, candidates,
                   queryEmbedding, scoredChunks, embedOutcome, unboosted, filteredChunks,
                   searchResults, calls, failures, tokens>>

MaxFailedRuns == 1

\* The consumer calls chatStream again on the same agent: the locals of the
\* generator are new, the agent keeps no state of the call that ended.
ChatStreamAgain ==
    /\ pc \in {"done", "failed"}
    /\ pc = "failed" => failedRuns < MaxFailedRuns
    /\ failedRuns' = IF pc = "failed" THEN failedRuns + 1 ELSE failedRuns
    /\ userQuery' \in UserQueries
    /\ parsedQuery' = EmptyParsedQuery
    /\ generatedQuery' = ""
    /\ pc' = "start"
    /\ events' = <<>>
    /\ searchEvents' = <<>>
    /\ candidates' = <<>>
    /\ queryEmbedding' = <<>>
    /\ scoredChunks' = <<>>
    /\ embedOutcome' = <<>>
    /\ unboosted' = <<>>
    /\ filteredChunks' = <<>>
    /\ searchResults' = <<>>
    /\ searchStatus' = "none"
    /\ calls' = [chat |-> 0, chatStream |-> 0, search |-> 0, embed |-> 0]
    /\ failures' = 0
    /\ tokens' = 0
    /\ UNCHANGED <<workerVars, indexerVars, serviceVars, parserVars, unitVars>>

(***************************************************************************)
(* The worker driven by messages posted straight to it.                    *)
(***************************************************************************)
MaxPosted == 3

\* The payloads a poster can send with a command, well-formed or not.
RawCommands ==
    {[command |-> "index", payload |-> IndexPayload("a.md::0", "plan a", Meta("a.md", 0, DateNow))],
     [command |-> "index", payload |-> IndexPayload("a.md::0", "plan b", Meta("a.md", 0, DateNow))],
     [command |-> "index", payload |-> IndexPayload("a.md::1", "later", Meta("a.md", 1, DateNow - 365))],
     [command |-> "index", payload |-> IndexPayload("b.md::0", "plan c", PathMeta("b.md"))],
     [command |-> "index", payload |-> IndexPayload("a.md::0", Undefined, Meta("a.md", 0, DateNow))],
     [command |-> "index", payload |-> IndexPayload("a.md::0", "plan a", NoMeta)],
     [command |-> "index", payload |-> IndexPayload(Undefined, "plan a", Meta("a.md", 0, DateNow))],
     [command |-> "index", payload |-> NoPayload],
     [command |-> "delete", payload |-> DeletePayload("a.md")],
     [command |-> "delete", payload |-> EmptyPayload],
     [command |-> "search", payload |-> SearchPayload("plans", 0)],
     [command |-> "search", payload |-> SearchPayload("plan", 1)],
     [command |-> "search", payload |-> EmptyPayload],
     [command |-> "vacuum", payload |-> EmptyPayload],
     [command |-> "init", payload |-> NoPayload]}

\* worker.postMessage(message) by some poster, with an id of its own
PostMessage ==
    /\ posted < MaxPosted
    /\ \E raw \in RawCommands :
         inbox' = Append(inbox, WorkerMessage(raw.command, "m" \o ToString(posted), raw.payload))
    /\ posted' = posted + 1
    /\ UNCHANGED <<runVars, parserVars, unitVars, agentVars, serviceVars>>
    /\ UNCHANGED <<documents, miniSearch, responses, handled, deletedPaths, vault,
                   indexCalls, vaultEvents>>

\* The paths deleted and not indexed again, after msg was answered by response.
DeletedAfter(deleted, msg, response) ==
    IF response.status # "success" THEN deleted
    ELSE IF msg.command = "delete" THEN deleted \cup {msg.payload.path}
    ELSE IF msg.command = "index"
    THEN deleted \ {IF msg.payload.meta.filePath = Undefined THEN ""
                    ELSE msg.payload.meta.filePath}
    ELSE deleted

\* The documents of the index, counted from the oldest, that the library's
\* factor is left open for; it is 1 for the others.
MaxVaried == 3

\* The factors the library can give the documents of the index when msg is handled.
RelevancesFor(index, msg) ==
    IF msg.command = "search"
    THEN {[k \in 1..Len(index) |-> IF k \in DOMAIN first THEN first[k] ELSE 1] :
             first \in [1..(IF Len(index) < MaxVaried THEN Len(index) ELSE MaxVaried)
                           -> Relevances]}
    ELSE {[k \in 1..Len(index) |-> 1]}

\* The worker's state, and what handling msg makes of such a state: the
\* handler's effect, the response posted, the message on record.
WorkerState ==
    [documents |-> documents, miniSearch |-> miniSearch, responses |-> responses,
     handled |-> handled, deletedPaths |-> deletedPaths]

WorkerAfter(w, msg, relevance) ==
    LET After(out) ==
            [documents |-> out.documents, miniSearch |-> out.miniSearch,
             responses |-> Append(w.responses, out.response),
             handled |-> Append(w.handled, [msg |-> msg, deleted |-> w.deletedPaths]),
             deletedPaths |-> DeletedAfter(w.deletedPaths, msg, out.response)]
    IN TheOne({After(out) : out \in {OnMessage(w, msg, relevance)}})

\* self.onmessage runs on the oldest message of the queue.
WorkerHandle ==
    /\ Len(inbox) > 0
    /\ \E relevance \in RelevancesFor(miniSearch, Head(inbox)) :
       \E after \in {WorkerAfter(WorkerState, Head(inbox), relevance)} :
          /\ documents' = after.documents
          /\ miniSearch' = after.miniSearch
          /\ responses' = after.responses
          /\ handled' = after.handled
          /\ deletedPaths' = after.deletedPaths
    /\ inbox' = Tail(inbox)
    /\ UNCHANGED <<runVars, parserVars, unitVars, agentVars, indexerVars, serviceVars>>

WorkerNext ==
    \/ PostMessage
    \/ WorkerHandle

\* No chatStream run: the agent stays in its initial state.
WorkerInit == Init /\ userQuery = "plan"

WorkerSpec == WorkerInit /\ [][WorkerNext]_vars

(***************************************************************************)
(* The Indexer driven by the vault events of main.ts.                      *)
(***************************************************************************)
MaxVaultEvents == 3

\* A call of indexFile that has not returned: the vault event it came with,
\* where it stands, what it has read, and whether buildIndex awaits it (the
\* handlers of main.ts call indexFile with void).
IndexCall(path, awaited) ==
    [call |-> vaultEvents, path |-> path, stage |-> "reading", content |-> <<>>,
     mtime |-> 0, awaited |-> awaited]

\* indexFile up to its first await: deleteFile(file.path), then vault.read
StartIndexFile(path, awaited) ==
    /\ inbox' = Append(inbox, DeleteMessage(path))
    /\ indexCalls' = indexCalls \cup {IndexCall(path, awaited)}

\* vault.on('create'): the file is written now.
VaultCreate ==
    /\ vaultEvents < MaxVaultEvents
    /\ \E f \in Files, content \in FileContents :
         /\ ~vault[f].exists
         /\ vault' = [vault EXCEPT ![f] = File(content, DateNow)]
         /\ StartIndexFile(f, FALSE)
    /\ vaultEvents' = vaultEvents + 1
    /\ UNCHANGED <<runVars, parserVars, unitVars, agentVars, serviceVars>>
    /\ UNCHANGED <<documents, miniSearch, responses, handled, deletedPaths, posted>>

\* vault.on('modify'): the file was written, with new content or the same.
VaultModify ==
    /\ vaultEvents < MaxVaultEvents
    /\ \E f \in Files, content \in FileContents :
         /\ vault[f].exists
         /\ vault' = [vault EXCEPT ![f] = File(content, DateNow)]
         /\ StartIndexFile(f, FALSE)
    /\ vaultEvents' = vaultEvents + 1
    /\ UNCHANGED <<runVars, parserVars, unitVars, agentVars, serviceVars>>
    /\ UNCHANGED <<documents, miniSearch, responses, handled, deletedPaths, posted>>

\* vault.on('delete')
VaultDelete ==
    /\ vaultEvents < MaxVaultEvents
    /\ \E f \in Files :
         /\ vault[f].exists
         /\ vault' = [vault EXCEPT ![f] = NoFile]
         /\ inbox' = Append(inbox, DeleteMessage(f))
    /\ vaultEvents' = vaultEvents + 1
    /\ UNCHANGED <<runVars, parserVars, unitVars, agentVars, serviceVars>>
    /\ UNCHANGED <<documents, miniSearch, responses, handled, deletedPaths, posted,
                   indexCalls>>

\* Paths of the vault that are not markdown files: the handlers pass them by,
\* and the model keeps no content for them.
OtherFiles == {"c.txt"}

\* What a file holds that becomes a markdown file by its new name.
RenamedContents == {<<"plan b", " later ">>}

\* vault.on('rename'): when the file is a markdown file under its new name,
\* deleteFile(oldPath), then indexFile(file) under the new path; otherwise
\* nothing, whatever the old name was.
VaultRename ==
    /\ vaultEvents < MaxVaultEvents
    /\ \/ \E oldPath \in Files, f \in Files :
            /\ vault[oldPath].exists
            /\ ~vault[f].exists
            /\ vault' = [vault EXCEPT ![oldPath] = NoFile, ![f] = vault[oldPath]]
            /\ inbox' = inbox \o <<DeleteMessage(oldPath), DeleteMessage(f)>>
            /\ indexCalls' = indexCalls \cup {IndexCall(f, FALSE)}
       \/ \E oldPath \in OtherFiles, f \in Files, content \in RenamedContents,
             mtime \in FileTimes \ {DateNow} :
            /\ ~vault[f].exists
            /\ vault' = [vault EXCEPT ![f] = File(content, mtime)]
            /\ inbox' = inbox \o <<DeleteMessage(oldPath), DeleteMessage(f)>>
            /\ indexCalls' = indexCalls \cup {IndexCall(f, FALSE)}
       \/ \E oldPath \in Files, f \in OtherFiles :
            /\ vault[oldPath].exists
            /\ vault' = [vault EXCEPT ![oldPath] = NoFile]
            /\ UNCHANGED <<inbox, indexCalls>>
    /\ vaultEvents' = vaultEvents + 1
    /\ UNCHANGED <<runVars, parserVars, unitVars, agentVars, serviceVars>>
    /\ UNCHANGED <<documents, miniSearch, responses, handled, deletedPaths, posted>>

\* vault.read returns the content and the stat the file has now; the call goes
\* on to chunk it.
IndexFileRead ==
    /\ \E c \in indexCalls :
         /\ c.stage = "reading"
         /\ vault[c.path].exists
         /\ indexCalls' = (indexCalls \ {c}) \cup
                {[c EXCEPT !.stage = "chunking", !.content = vault[c.path].content,
                           !.mtime = vault[c.path].mtime]}
    /\ UNCHANGED <<runVars, parserVars, unitVars, agentVars, workerVars, serviceVars>>
    /\ UNCHANGED <<posted, vault, vaultEvents>>

\* vault.read throws (the file is gone, or cannot be read): the catch ends the call.
IndexFileReadFail ==
    /\ \E c \in indexCalls :
         /\ c.stage = "reading"
         /\ indexCalls' = indexCalls \ {c}
    /\ UNCHANGED <<runVars, parserVars, unitVars, agentVars, workerVars, serviceVars>>
    /\ UNCHANGED <<posted, vault, vaultEvents>>

\* chunkContent returns, by its chunker or by its fallback: one index
\* message per chunk is posted, the call returns.
IndexFileChunks ==
    /\ \E c \in indexCalls, chunkerThrows \in BOOLEAN :
         /\ c.stage = "chunking"
         /\ inbox' = inbox \o IndexMessages(chunkContent(c.content, c.path, c.mtime, chunkerThrows))
         /\ indexCalls' = indexCalls \ {c}
    /\ UNCHANGED <<runVars, parserVars, unitVars, agentVars, serviceVars>>
    /\ UNCHANGED <<documents, miniSearch, responses, handled, deletedPaths, posted,
                   vault, vaultEvents>>

IndexerNext ==
    \/ VaultCreate
    \/ VaultModify
    \/ VaultDelete
    \/ VaultRename
    \/ IndexFileRead
    \/ IndexFileReadFail
    \/ IndexFileChunks
    \/ WorkerHandle

IndexerSpec == WorkerInit /\ [][IndexerNext]_vars

(***************************************************************************)
(* buildIndex over the markdown files of the vault.                        *)
(***************************************************************************)
\* The order in which the vault lists its files.
FileList == <<"a.md", "b.md">>

\* this.vault.getMarkdownFiles()
getMarkdownFiles(v) == SelectSeq(FileList, LAMBDA f : v[f].exists)

\* An onProgress that would be called before processedCount is raised.
onProgressBeforeCount(reported, completed, total) ==
    Append(reported, [completed |-> completed - 1, total |-> total])

\* onProgress(processedCount, total)
onProgress(reported, completed, total) ==
    Append(reported, [completed |-> completed, total |-> total])

\* The plugin is loaded: the vault is about to be opened.
BuildInit ==
    /\ SessionInit
    /\ ParserIdle
    /\ userQuery = "plan"
    /\ unitPc = "vault"
    /\ tokenizerInput = ""
    /\ tokenizerOutput = <<>>
    /\ buildFiles = <<>>
    /\ processedCount = 0
    /\ progressCalls = <<>>
    /\ EmbedIdle

\* The vault as buildIndex finds it.
VaultsToBuild ==
    [Files -> {NoFile} \cup {File(content, mtime) : content \in FileContents, mtime \in FileTimes}]

\* The vault the plugin is loaded on holds any of the files.
OpenVault ==
    /\ unitPc = "vault"
    /\ vault' \in VaultsToBuild
    /\ unitPc' = "build"
    /\ UNCHANGED <<agentVars, workerVars, serviceVars, runVars, parserVars>>
    /\ UNCHANGED <<posted, indexCalls, vaultEvents, tokenizerInput, tokenizerOutput,
                   buildVars, embedVars>>

\* buildIndex up to the loop: files, processedCount, total
BuildIndexStart ==
    /\ unitPc = "build"
    /\ buildFiles' = getMarkdownFiles(vault)
    /\ processedCount' = 0
    /\ unitPc' = "loop"
    /\ UNCHANGED <<agentVars, workerVars, indexerVars, serviceVars, runVars, parserVars>>
    /\ UNCHANGED <<tokenizerInput, tokenizerOutput, progressCalls, embedVars>>

\* One turn of the loop up to the await: indexFile(file) is called.
BuildIndexFile ==
    /\ unitPc = "loop"
    /\ processedCount < Len(buildFiles)
    /\ StartIndexFile(buildFiles[processedCount + 1], TRUE)
    /\ unitPc' = "await"
    /\ UNCHANGED <<agentVars, serviceVars, runVars, parserVars>>
    /\ UNCHANGED <<documents, miniSearch, responses, handled, deletedPaths, posted, vault,
                   vaultEvents, tokenizerInput, tokenizerOutput, buildVars, embedVars>>

\* The indexFile call the loop awaits has returned (it never throws): count
\* the file, report the progress.
BuildIndexProgress ==
    /\ unitPc = "await"
    /\ \A c \in indexCalls : ~c.awaited
    /\ processedCount' = processedCount + 1
    /\ progressCalls' = onProgress(progressCalls, processedCount + 1, Len(buildFiles))
    /\ unitPc' = "loop"
    /\ UNCHANGED <<agentVars, workerVars, indexerVars, serviceVars, runVars, parserVars>>
    /\ UNCHANGED <<tokenizerInput, tokenizerOutput, buildFiles, embedVars>>

\* The loop is through: buildIndex returns.
BuildIndexReturn ==
    /\ unitPc = "loop"
    /\ processedCount = Len(buildFiles)
    /\ unitPc' = "built"
    /\ UNCHANGED <<agentVars, workerVars, indexerVars, serviceVars, runVars, parserVars>>
    /\ UNCHANGED <<tokenizerInput, tokenizerOutput, buildVars, embedVars>>

BuildNext ==
    \/ OpenVault
    \/ BuildIndexStart
    \/ BuildIndexFile
    \/ IndexFileRead
    \/ IndexFileReadFail
    \/ IndexFileChunks
    \/ BuildIndexProgress
    \/ BuildIndexReturn
    \/ WorkerHandle

BuildSpec == BuildInit /\ [][BuildNext]_vars

(***************************************************************************)
(* getEmbeddings: the retry loop around the request to the embedding       *)
(* service.                                                                *)
(***************************************************************************)
EmbedPrompts == {"plan", "my plan", "plan later"}

\* How a request can fail: fetch rejects, the status is not ok, the body is
\* not JSON.
RequestFailures == {"fetch rejected", "status not ok", "body not JSON"}

\* A catch that would give up at the first failure.
IsFinalAttemptAlways(n, limit) == TRUE

\* attempt === retries - 1
IsFinalAttempt(n, limit) == n = limit - 1

\* const waitTime = 500 * (attempt + 1)
waitTime(n) == 500 * (n + 1)

\* getEmbeddings(prompt, model, retries) is called.
EmbedInit ==
    /\ SessionInit
    /\ ParserIdle
    /\ userQuery = "plan"
    /\ unitPc = "embed"
    /\ tokenizerInput = ""
    /\ tokenizerOutput = <<>>
    /\ buildFiles = <<>>
    /\ processedCount = 0
    /\ progressCalls = <<>>
    /\ embedPrompt \in EmbedPrompts
    /\ retries \in 0..DefaultRetries
    /\ attempt = 0
    /\ attemptLog = <<>>
    /\ waits = <<>>
    /\ embedResult = NoResult

\* The loop condition holds: the request is sent.
SendRequest ==
    /\ unitPc = "embed"
    /\ attempt < retries
    /\ unitPc' = "request"
    /\ UNCHANGED <<agentVars, workerVars, indexerVars, serviceVars, runVars, parserVars>>
    /\ UNCHANGED <<tokenizerInput, tokenizerOutput, buildVars, embedVars>>

\* The loop condition fails: the throw behind the loop.
LoopExhausted ==
    /\ unitPc = "embed"
    /\ ~(attempt < retries)
    /\ embedResult' = [status |-> "thrown", value |-> <<>>,
                       error |-> "Embedding failed after all retries"]
    /\ unitPc' = "embedded"
    /\ UNCHANGED <<agentVars, workerVars, indexerVars, serviceVars, runVars, parserVars>>
    /\ UNCHANGED <<tokenizerInput, tokenizerOutput, buildVars, embedPrompt, retries,
                   attempt, attemptLog, waits>>

\* The response is ok and its body parses: return data.embedding.
RequestSucceeds ==
    /\ unitPc = "request"
    /\ attemptLog' = Append(attemptLog, "ok")
    /\ embedResult' = [status |-> "returned", value |-> EmbeddingOf(embedPrompt),
                       error |-> ""]
    /\ unitPc' = "embedded"
    /\ UNCHANGED <<agentVars, workerVars, indexerVars, serviceVars, runVars, parserVars>>
    /\ UNCHANGED <<tokenizerInput, tokenizerOutput, buildVars, embedPrompt, retries,
                   attempt, waits>>

\* The request fails: the catch rethrows on the final attempt, else it sets
\* the backoff timer.
RequestFails ==
    /\ unitPc = "request"
    /\ \E failure \in RequestFailures :
         /\ attemptLog' = Append(attemptLog, failure)
         /\ IF IsFinalAttempt(attempt, retries)
            THEN /\ embedResult' = [status |-> "thrown", value |-> <<>>, error |-> failure]
                 /\ unitPc' = "embedded"
                 /\ UNCHANGED waits
            ELSE /\ waits' = Append(waits, waitTime(attempt))
                 /\ unitPc' = "wait"
                 /\ UNCHANGED embedResult
    /\ UNCHANGED <<agentVars, workerVars, indexerVars, serviceVars, runVars, parserVars>>
    /\ UNCHANGED <<tokenizerInput, tokenizerOutput, buildVars, embedPrompt, retries, attempt>>

\* The backoff timer fires: attempt++ and back to the loop condition.
BackoffOver ==
    /\ unitPc = "wait"
    /\ attempt' = attempt + 1
    /\ unitPc' = "embed"
    /\ UNCHANGED <<agentVars, workerVars, indexerVars, serviceVars, runVars, parserVars>>
    /\ UNCHANGED <<tokenizerInput, tokenizerOutput, buildVars, embedPrompt, retries,
                   attemptLog, waits, embedResult>>

EmbedNext ==
    \/ SendRequest
    \/ LoopExhausted
    \/ RequestSucceeds
    \/ RequestFails
    \/ BackoffOver

\* Every request is answered or fails, and every timer fires.
EmbedSpec == EmbedInit /\ [][EmbedNext]_vars /\ WF_vars(EmbedNext)

(***************************************************************************)
(* The SearchService: requests correlated by id, raced against a timeout.  *)
(***************************************************************************)
MaxRequests == 3

RerankTopK == 100

\* A finalizeRequest that would leave the entry in place.
finalizeNothing(pending, id) == pending

\* pendingRequests.delete(id)
finalizeRequest(pending, id) == pending \ {id}

TimeoutText == "Search timeout exceeded"

SearchQueries == {"plan", "later"}

ServiceDocuments ==
    {IndexPayload("a.md::0", "plan a", Meta("a.md", 0, DateNow)),
     IndexPayload("b.md::0", "plan later", Meta("b.md", 0, DateNow - 365))}

\* A call on the service: searchPromise is the promise the listener settles,
\* timeoutPromise the one the timer rejects ("none" for indexDocument), and
\* outcome what the caller's promise settled with, first settlement only.
\* settledBy and settles record what settled the caller, and how many times.
Request(id, kind) ==
    [id |-> id, kind |-> kind, searchPromise |-> "pending",
     timeoutPromise |-> IF kind = "search" THEN "pending" ELSE "none",
     outcome |-> "pending", value |-> <<>>, error |-> "", settledBy |-> "", settles |-> 0]

\* A promise that a later resolve or reject would settle again.
SettleAgain(req, outcome, value, error, by) ==
    [req EXCEPT !.outcome = outcome, !.value = value, !.error = error,
                !.settledBy = by, !.settles = @ + 1]

\* A promise settles only once: a later resolve or reject changes nothing.
Settle(req, outcome, value, error, by) ==
    IF req.outcome # "pending" THEN req
    ELSE [req EXCEPT !.outcome = outcome, !.value = value, !.error = error,
                     !.settledBy = by, !.settles = @ + 1]

\* The listener's resolve(data) or reject(new Error(error)) for this request.
OnResponse(req, response) ==
    IF response.status = "success"
    THEN Settle([req EXCEPT !.searchPromise = "fulfilled"], "resolved",
                response.data.results, "", response.id)
    ELSE Settle([req EXCEPT !.searchPromise = "rejected"], "rejected",
                <<>>, response.error, response.id)

\* The timer's reject(new Error('Search timeout exceeded')).
OnTimeout(req) ==
    Settle([req EXCEPT !.timeoutPromise = "rejected"], "rejected", <<>>, TimeoutText, "timeout")

\* A listener that would settle every waiting request with the response.
ListenerOfAnyPending(reqs, pending, response) ==
    [k \in 1..Len(reqs) |->
        IF reqs[k].id \in pending THEN OnResponse(reqs[k], response) ELSE reqs[k]]

\* The message listener: the request filed under the response's id, if any, is settled.
Listener(reqs, pending, response) ==
    IF response.id \in pending
    THEN [k \in 1..Len(reqs) |->
             IF reqs[k].id = response.id THEN OnResponse(reqs[k], response) ELSE reqs[k]]
    ELSE reqs

\* SearchService.search up to the point where it waits for the race.
SearchCall ==
    /\ Len(requests) < MaxRequests
    /\ \E query \in SearchQueries :
         LET id == "search-" \o ToString(idCounter)
         IN /\ requests' = Append(requests, Request(id, "search"))
            /\ pendingRequests' = pendingRequests \cup {id}
            /\ inbox' = Append(inbox, WorkerMessage("search", id, SearchPayload(query, RerankTopK)))
    /\ idCounter' = idCounter + 1
    /\ UNCHANGED <<runVars, parserVars, unitVars, agentVars, indexerVars, delivered>>
    /\ UNCHANGED <<documents, miniSearch, responses, handled, deletedPaths>>

\* SearchService.indexDocument
IndexDocumentCall ==
    /\ Len(requests) < MaxRequests
    /\ \E payload \in ServiceDocuments :
         LET msgId == "index-" \o ToString(idCounter)
         IN /\ requests' = Append(requests, Request(msgId, "index"))
            /\ pendingRequests' = pendingRequests \cup {msgId}
            /\ inbox' = Append(inbox, WorkerMessage("index", msgId, payload))
    /\ idCounter' = idCounter + 1
    /\ UNCHANGED <<runVars, parserVars, unitVars, agentVars, indexerVars, delivered>>
    /\ UNCHANGED <<documents, miniSearch, responses, handled, deletedPaths>>

\* The message listener of the constructor runs on the next response.
ListenerRuns ==
    /\ delivered < Len(responses)
    /\ LET response == responses[delivered + 1]
       IN /\ requests' = Take(Listener(requests, pendingRequests, response), Len(requests))
          /\ pendingRequests' = pendingRequests \ {response.id}
    /\ delivered' = delivered + 1
    /\ UNCHANGED <<runVars, parserVars, unitVars, workerVars, indexerVars, idCounter>>

\* The timer of a search fires; the race's finally runs finalizeRequest(id).
TimerFires ==
    /\ \E k \in 1..Len(requests) :
         /\ requests[k].timeoutPromise = "pending"
         /\ requests' = [requests EXCEPT ![k] = OnTimeout(requests[k])]
         /\ pendingRequests' = IF requests[k].outcome = "pending"
                               THEN finalizeRequest(pendingRequests, requests[k].id)
                               ELSE pendingRequests
    /\ UNCHANGED <<runVars, parserVars, unitVars, workerVars, indexerVars, idCounter, delivered>>

\* The two with no chatStream run waiting for a search.
Deliver == ListenerRuns /\ UNCHANGED agentVars

Timeout == TimerFires /\ UNCHANGED agentVars

ServiceNext ==
    \/ SearchCall
    \/ IndexDocumentCall
    \/ WorkerHandle
    \/ Deliver
    \/ Timeout

ServiceSpec == WorkerInit /\ [][ServiceNext]_vars

(***************************************************************************)
(* The lexical search of a chatStream run: the rerank generator calls     *)
(* SearchService.search and waits for the worker's answer or the timer.   *)
(***************************************************************************)
\* The searches one session of the model sends to the search service.
MaxSearches == 1

\* const id = `search-${this.idCounter++}`
SearchId == "search-" \o ToString(idCounter)

\* The message SearchService.search posts for the rerank's query.
SearchMessage == WorkerMessage("search", SearchId, SearchPayload(generatedQuery, RerankTopK))

\* searchVaultWithProgress up to its await of the candidates:
\* SearchService.search takes the next id, sets the timer, files the request
\* under pendingRequests, posts the search message and returns the race.
LexicalSearch ==
    /\ pc = "search"
    /\ idCounter < MaxSearches
    /\ calls' = [calls EXCEPT !.search = @ + 1]
    /\ pc' = "searching"
    /\ requests' = Append(requests, Request(SearchId, "search"))
    /\ pendingRequests' = pendingRequests \cup {SearchId}
    /\ inbox' = Append(inbox, SearchMessage)
    /\ idCounter' = idCounter + 1
    /\ UNCHANGED <<documents, miniSearch, responses, handled, deletedPaths, delivered>>
    /\ UNCHANGED <<indexerVars, runVars, parserVars, unitVars>>
    /\ UNCHANGED <<searchStatus, userQuery, parsedQuery, generatedQuery, events, searchEvents,
                   candidates, queryEmbedding, scoredChunks, embedOutcome, unboosted,
                   filteredChunks, searchResults, failures, tokens>>

\* The rerank is resumed by the race it awaits: resolved, the results are
\* its candidates; rejected, the error leaves the generator and chatStream's
\* catch yields the error text.
SearchSettled(req) ==
    IF req.outcome = "resolved"
    THEN /\ candidates' = req.value
         /\ searchStatus' = "ok"
         /\ pc' = "fetched"
         /\ UNCHANGED events
    ELSE /\ events' = Append(events, Token(SearchErrorText))
         /\ searchStatus' = "failed"
         /\ pc' = "searchFailed"
         /\ UNCHANGED candidates

\* What a settlement of requestsAfter means to the chatStream run: the run
\* that waits for its search, the newest request, goes on as soon as that
\* request is settled; otherwise nothing.
RunResumes(requestsAfter) ==
    /\ IF pc = "searching" /\ requestsAfter[Len(requestsAfter)].outcome # "pending"
       THEN SearchSettled(requestsAfter[Len(requestsAfter)])
       ELSE UNCHANGED <<candidates, searchStatus, pc, events>>
    /\ UNCHANGED <<userQuery, parsedQuery, generatedQuery, searchEvents, queryEmbedding,
                   scoredChunks, embedOutcome, unboosted, filteredChunks, searchResults,
                   calls, failures, tokens>>

\* The listener runs on the next response while a chatStream run may wait.
ChatDeliver ==
    /\ ListenerRuns
    /\ RunResumes(requests')

\* The timer of a search fires while a chatStream run may wait.
ChatTimeout ==
    /\ TimerFires
    /\ RunResumes(requests')

\* A worker that has handled msgs[from..to], one after the other, from the
\* state w: the first half of them, then the second.
RECURSIVE WorkerAfterRange(_, _, _, _)
WorkerAfterRange(w, msgs, from, to) ==
    IF from > to THEN w
    ELSE IF from = to THEN WorkerAfter(w, msgs[from], <<>>)
    ELSE TheOne({WorkerAfterRange(half, msgs, ((from + to) \div 2) + 1, to) :
                    half \in {WorkerAfterRange(w, msgs, from, (from + to) \div 2)}})

WorkerAfterAll(w, msgs) == WorkerAfterRange(w, msgs, 1, Len(msgs))

\* What indexFile posts for a note: the delete, then one index message a chunk.
NoteMessages(note) ==
    <<DeleteMessage(note.path)>>
        \o IndexMessages(chunkContent(note.content, note.path, note.mtime, FALSE))

\* What buildIndex posts for the notes of a vault, in their order.
RECURSIVE BuildMessages(_)
BuildMessages(notes) ==
    IF Len(notes) = 0 THEN <<>>
    ELSE NoteMessages(Head(notes)) \o BuildMessages(Tail(notes))

NewWorker ==
    [documents |-> <<>>, miniSearch |-> <<>>, responses |-> <<>>, handled |-> <<>>,
     deletedPaths |-> {}]

\* The plugin was loaded over a vault with notes: buildIndex has run, the
\* worker has indexed what it posted, the listener has seen every response
\* (none of them is filed under pendingRequests), and the first chatStream
\* call is made.
IndexedInit ==
    /\ RunInit
    /\ \E notes \in ChatVaults :
         /\ vault = [f \in {notes[k].path : k \in 1..Len(notes)} |->
                        LET note == notes[CHOOSE k \in 1..Len(notes) : notes[k].path = f]
                        IN File(note.content, note.mtime)]
         /\ \E w \in {WorkerAfterAll(NewWorker, <<InitMessage>> \o BuildMessages(notes))} :
              /\ documents = w.documents
              /\ miniSearch = w.miniSearch
              /\ responses = w.responses
              /\ handled = w.handled
              /\ deletedPaths = w.deletedPaths
              /\ delivered = Len(w.responses)
    /\ inbox = <<>>
    /\ posted = 0
    /\ indexCalls = {}
    /\ vaultEvents = 0
    /\ pendingRequests = {}
    /\ idCounter = 0
    /\ requests = <<>>

\* A chat session starts on a plugin just loaded over an empty vault, or on
\* one whose vault has been indexed.
ChatInit == Init \/ (IndexedInit /\ ParserIdle /\ UnitIdle)

Next ==
    \/ ChatStreamStart
    \/ Triage
    \/ TriageFail
    \/ DirectStart
    \/ AnnounceSearch
    \/ DirectToken
    \/ DirectDone
    \/ DirectFail
    \/ LexicalSearch
    \/ WorkerHandle
    \/ ChatDeliver
    \/ ChatTimeout
    \/ SearchFailDone
    \/ ZeroCandidates
    \/ EmbedQuery
    \/ EmbedQueryFail
    \/ EmbedChunk
    \/ Rank
    \/ AfterSearch
    \/ NoNotesDone
    \/ EmitSources
    \/ Synthesize
    \/ AnswerStart
    \/ AnswerToken
    \/ AnswerDone
    \/ AnswerFail
    \/ ChatStreamAgain

Spec == ChatInit /\ [][Next]_vars

(***************************************************************************)
(* The pure functions on their own: parseQuery, matchesFilters and the    *)
(* parsing of the triage output, applied to inputs drawn at the start.    *)
(***************************************************************************)
MaxQueryTokens == 2

\* What a user types between spaces: a quoted phrase, tags, the facets, words.
QueryTokens ==
    <<"\"a b\"", "#t1", "#N/x-2", "ext:md", "path:foo", "-path:bar", "-path:Baz", "-x", "y", "Zed">>

TokenLists == UNION {[1..n -> Range(QueryTokens)] : n \in 1..MaxQueryTokens}

\* One token of each facet, in the order phrase, tag, ext, path, -path, -word, words.
FacetLists ==
    {<<q, t, e, p, x, w>> \o words :
        q \in {"\"a b\"", "\"Hello W\""}, t \in {"#t1", "#N/x-2"}, e \in {"ext:md", "EXT:Pdf"},
        p \in {"path:foo", "path:My-Dir/Sub"}, x \in {"-path:bar", "-PATH:Old"},
        w \in {"-x", "-Draft9"}, words \in {<<"y", "z">>, <<"Why", "zed">>}}

\* The results handed to matchesFilters: id, path and chunk content.
FilterResults ==
    {[id |-> "notes/foo.md::0", path |-> "notes/Foo.md", content |-> "Y and a b"],
     [id |-> "bar/x.md::1", path |-> "bar/x.MDX", content |-> "x marks #T1"],
     [id |-> "foo/c.md::0", path |-> "", content |-> "hello w, why zed"],
     [id |-> "n1", path |-> "mdnotes", content |-> "a b y z"],
     [id |-> "old/baz.txt::0", path |-> "old/baz.txt", content |-> "draft9"]}

\* What the chat model may answer to the triage prompt.
ModelOutputs ==
    {"<question>my plan</question>", "<question>not_needed</question>",
     "sure, not_needed here", "ok", "<question>my plan", "<question></question>",
     "</question> not_needed <question>", "<question> </question>",
     "<question></question> <question>x</question>", ""}

ParserInit ==
    /\ SessionInit
    /\ userQuery = "plan"
    /\ rawTokens \in TokenLists \cup FacetLists
    /\ rawQuery = Join(rawTokens, " ")
    /\ parsed = EmptyParsedQuery
    /\ reparsed = EmptyParsedQuery
    /\ parserPc = "raw"
    /\ filterCase = NoFilterCase
    /\ triaged = NoTriage
    /\ UnitIdle

\* parseQuery(rawQuery)
ParseRaw ==
    /\ parserPc = "raw"
    /\ parsed' = parseQuery(rawQuery)
    /\ parserPc' = "parsed"
    /\ UNCHANGED <<agentVars, workerVars, indexerVars, serviceVars, runVars, unitVars>>
    /\ UNCHANGED <<rawTokens, rawQuery, reparsed, filterCase, triaged>>

\* parseQuery(parsed.text.join(' '))
ParseEmittedText ==
    /\ parserPc = "parsed"
    /\ reparsed' = parseQuery(Join(parsed.text, " "))
    /\ parserPc' = "reparsed"
    /\ UNCHANGED <<agentVars, workerVars, indexerVars, serviceVars, runVars, unitVars>>
    /\ UNCHANGED <<rawTokens, rawQuery, parsed, filterCase, triaged>>

\* matchesFilters(result, parsed, result.content)
ApplyMatchesFilters ==
    /\ parserPc = "parsed"
    /\ \E result \in FilterResults :
         filterCase' = [id |-> result.id, path |-> result.path, content |-> result.content,
                        verdict |-> matchesFilters(result, parsed, result.content)]
    /\ parserPc' = "filtered"
    /\ UNCHANGED <<agentVars, workerVars, indexerVars, serviceVars, runVars, unitVars>>
    /\ UNCHANGED <<rawTokens, rawQuery, parsed, reparsed, triaged>>

\* generateQuery(rawQuery, []) once the chat model has answered with output
ParseTriageOutput ==
    /\ parserPc = "raw"
    /\ \E output \in ModelOutputs :
         triaged' = [output |-> output, result |-> generateQuery(rawQuery, output)]
    /\ parserPc' = "triaged"
    /\ UNCHANGED <<agentVars, workerVars, indexerVars, serviceVars, runVars, unitVars>>
    /\ UNCHANGED <<rawTokens, rawQuery, parsed, reparsed, filterCase>>

ParserNext ==
    \/ ParseRaw
    \/ ParseEmittedText
    \/ ApplyMatchesFilters
    \/ ParseTriageOutput

ParserSpec == ParserInit /\ [][ParserNext]_vars

(***************************************************************************)
(* The tokenizer applied to the strings over a small alphabet.             *)
(***************************************************************************)
MaxStringLen == 3

\* A letter, a capital, a hyphen, a space, two ideographs, an accented
\* capital and a combining accent.
TokenizerChars == <<"a", "B", "-", " ", "$", "%", "@", "~">>

RECURSIVE Concat(_)
Concat(chars) == IF Len(chars) = 0 THEN "" ELSE Head(chars) \o Concat(Tail(chars))

TokenizerInputs ==
    {Concat(chars) : chars \in UNION {[1..n -> Range(TokenizerChars)] : n \in 0..MaxStringLen}}

TokenizerInit ==
    /\ SessionInit
    /\ ParserIdle
    /\ userQuery = "plan"
    /\ unitPc = "tokenizer"
    /\ tokenizerInput \in TokenizerInputs
    /\ tokenizerOutput = <<>>
    /\ buildFiles = <<>>
    /\ processedCount = 0
    /\ progressCalls = <<>>
    /\ EmbedIdle

\* MiniSearch calls tokenize(string)
Tokenize ==
    /\ unitPc = "tokenizer"
    /\ tokenizerOutput' = tokenize(tokenizerInput)
    /\ unitPc' = "tokenized"
    /\ UNCHANGED <<agentVars, workerVars, indexerVars, serviceVars, runVars, parserVars>>
    /\ UNCHANGED <<tokenizerInput, buildVars, embedVars>>

TokenizerNext == Tokenize

TokenizerSpec == TokenizerInit /\ [][TokenizerNext]_vars

(***************************************************************************)
(* Properties of the rerank (searchVaultWithProgress) and of chatStream.   *)
(***************************************************************************)
EventsOfType(seq, type) == SelectSeq(seq, LAMBDA e : e.type = type)

\* The rerank generator has returned: its last event has been yielded.
RerankFinished ==
    /\ searchStatus = "ok"
    /\ pc \in {"searched", "noNotes", "complete", "sourced", "synthesis", "answer", "done",
               "failed"}

\* The rerank went past the query embedding and through the batch loop.
Reranked == RerankFinished /\ Len(candidates) > 0 /\ queryEmbedding # <<>>

\* The outer catch answered with the lexical candidates.
FellBack == RerankFinished /\ Len(candidates) > 0 /\ queryEmbedding = <<>>

PositionOf(seq, id) == CHOOSE k \in 1..Len(seq) : seq[k].id = id

Max(S) == CHOOSE x \in S : \A y \in S : y <= x

\* C1: with the query embedded, the batch loop scores the candidates one by
\* one to the last: a chunk whose embedding call failed gets finalScore -999
\* and similarity 0, an empty chunk the -100 sentinel, every other chunk
\* keywordScore * 0.1 + similarity * 10, and the scored set the ranking
\* starts from holds every candidate.
C1_FailedChunkDoesNotAbortBatch ==
    /\ pc = "embedding" =>
         /\ Len(embedOutcome) = Len(scoredChunks)
         /\ Len(scoredChunks) <= Len(candidates)
         /\ \A k \in 1..Len(scoredChunks) :
              LET chunk == candidates[k]
                  similarity == cosineSimilarity(queryEmbedding,
                                                 EmbeddingOf(CleanContent(chunk)))
              IN /\ scoredChunks[k].id = chunk.id
                 /\ scoredChunks[k].content = chunk.content
                 /\ embedOutcome[k] = "failed" =>
                      /\ scoredChunks[k].finalScore = FailedScore * Scale
                      /\ scoredChunks[k].similarity = 0
                 /\ embedOutcome[k] = "ok" =>
                      /\ scoredChunks[k].finalScore =
                             (chunk.keywordScore \div 10) + (similarity * 10)
                      /\ scoredChunks[k].similarity = similarity
                 /\ embedOutcome[k] = "skipped" =>
                      scoredChunks[k].finalScore = EmptyScore * Scale
    /\ Reranked =>
         /\ Len(scoredChunks) = Len(candidates)
         /\ Len(embedOutcome) = Len(candidates)
         /\ \A k \in 1..Len(candidates) :
              \E j \in 1..Len(scoredChunks) : scoredChunks[j].id = candidates[k].id

\* The loop has reached the end of a list whose first chunk failed and whose
\* last chunk was embedded.
C1_Witness ==
    /\ pc = "embedding"
    /\ Len(candidates) >= 2
    /\ Len(scoredChunks) = Len(candidates)
    /\ embedOutcome[1] = "failed"
    /\ embedOutcome[Len(candidates)] = "ok"

\* C2: when the rerank fails after the candidates were fetched, nothing
\* propagates: the one event of the rerank is a result holding the first
\* min(12, n) lexical candidates, in their lexical order.
C2_FallbackIsFirstTwelve ==
    FellBack =>
        LET n == Len(candidates)
            m == IF n < FallbackDocs THEN n ELSE FallbackDocs
            firstM == [k \in 1..m |-> candidates[k]]
        IN /\ searchEvents = <<ResultEvent(firstM)>>
           /\ searchResults = firstM
           /\ Len(EventsOfType(events, "sources")) <= 1
           /\ \A k \in 1..Len(events) :
                events[k].type = "sources" => events[k].content = firstM

\* The query embedding failed over a list of more than twelve candidates.
C2_Witness ==
    /\ FellBack
    /\ Len(candidates) > FallbackDocs
    /\ Len(searchResults) = FallbackDocs

\* The progress events of a sequence of events, as <<current, total>> pairs.
ProgressOf(seq) ==
    LET progress == EventsOfType(seq, "progress")
    IN [k \in 1..Len(progress) |-> <<progress[k].content.current, progress[k].content.total>>]

\* C3 (as stated): every finished rerank over N >= 1 candidates has emitted
\* current = N exactly once, as its last progress event.
C3_ProgressReachesTotalOnce ==
    (RerankFinished /\ Len(candidates) >= 1) =>
        LET progress == ProgressOf(searchEvents)
            n == Len(candidates)
        IN /\ Cardinality({k \in 1..Len(progress) : progress[k][1] = n}) = 1
           /\ progress[Len(progress)][1] = n

\* C3 (amended): the progress events carry total = N and current = 1, 2, ...
\* in this order, and chatStream forwards them in the same order; a rerank
\* whose query embedding succeeded ends with current = N emitted exactly
\* once, as the last progress event; a rerank that fell back emits none.
C3_ProgressWhenQueryEmbedded ==
    LET progress == ProgressOf(searchEvents)
        n == Len(candidates)
    IN /\ \A k \in 1..Len(progress) : progress[k] = <<k, n>>
       /\ Len(progress) <= n
       /\ ProgressOf(events) = progress
       /\ Reranked => Len(progress) = n
       /\ FellBack => Len(progress) = 0

\* A rerank over at least two candidates has finished after a full batch loop.
C3_Witness ==
    /\ Reranked
    /\ Len(candidates) >= 2
    /\ Len(EventsOfType(events, "progress")) = Len(candidates)

\* C4: a rerank whose lexical search succeeded emits exactly one result
\* event, and it is the last event of the rerank; before the rerank returns
\* no result event has been emitted.
C4_OneResultEventLast ==
    LET results == EventsOfType(searchEvents, "result")
    IN /\ RerankFinished =>
            /\ Len(results) = 1
            /\ searchEvents[Len(searchEvents)].type = "result"
            /\ searchResults = results[1].content
       /\ ~RerankFinished => Len(results) = 0

\* A rerank has returned after progress events (the normal path).
C4_Witness ==
    /\ RerankFinished
    /\ Len(searchEvents) >= 3
    /\ searchEvents[1].type = "progress"
    /\ searchEvents[Len(searchEvents)].type = "result"

\* C5: with tags in the query, of two chunks that passed the filter with
\* the same finalScore before the boost, the one whose content holds a
\* queried tag stands before the one that holds none after the re-sort.
C5_TaggedChunkRanksAbove ==
    (Reranked /\ Len(parsedQuery.tags) > 0) =>
        \A i, j \in 1..Len(unboosted) :
            ( /\ unboosted[i].finalScore = unboosted[j].finalScore
              /\ MatchesTag(unboosted[i], parsedQuery)
              /\ ~MatchesTag(unboosted[j], parsedQuery) )
            => PositionOf(filteredChunks, unboosted[i].id)
                   < PositionOf(filteredChunks, unboosted[j].id)

\* The chunks the grouping reads, and what it should make of one path.
TopRanked == Take(filteredChunks, TopChunks)

PathsOf(chunks) == {chunks[k].path : k \in 1..Len(chunks)}

BestScore(chunks, path) ==
    Max({chunks[k].finalScore : k \in {j \in 1..Len(chunks) : chunks[j].path = path}})

BestContent(chunks, path) ==
    LET First(best) == chunks[CHOOSE k \in best : \A j \in best : k <= j].content
        Best(score) == {k \in 1..Len(chunks) : /\ chunks[k].path = path
                                                /\ chunks[k].finalScore = score}
    IN TheOne({First(Best(score)) : score \in {BestScore(chunks, path)}})

DocsOf(path) == {d \in 1..Len(searchResults) : searchResults[d].path = path}

\* C6 (as stated): every distinct path among the top 50 chunks has exactly
\* one RankedDocument in the result, with the best finalScore of the path's
\* chunks among those 50 and the content of that best chunk.
C6_OneDocumentPerPath ==
    Reranked =>
        \A path \in PathsOf(TopRanked) :
            /\ Cardinality(DocsOf(path)) = 1
            /\ \A d \in DocsOf(path) :
                 /\ searchResults[d].finalScore = BestScore(TopRanked, path)
                 /\ searchResults[d].content = BestContent(TopRanked, path)

\* C6 (amended): the grouping builds exactly one RankedDocument per distinct
\* path of the top 50 chunks, with the best finalScore of that path's chunks
\* among those 50 and the content of that best chunk; the result holds the
\* 20 best-scoring of these documents (all of them when there are at most
\* 20), so at most one per path.
C6_OneDocumentPerReturnedPath ==
    Reranked =>
        \A top \in {TopRanked} : \A grouped \in {GroupByDoc(top)} : \A paths \in {PathsOf(top)} :
           /\ Len(searchResults)
                  = (IF Cardinality(paths) < TopDocs THEN Cardinality(paths) ELSE TopDocs)
           /\ \A path \in paths :
                LET at == {g \in 1..Len(grouped) : grouped[g].path = path}
                IN /\ Cardinality(at) = 1
                   /\ \A g \in at :
                        /\ grouped[g].finalScore = BestScore(top, path)
                        /\ grouped[g].content = BestContent(top, path)
                   /\ Cardinality(DocsOf(path)) <= 1
           /\ \A d \in 1..Len(searchResults) :
                LET doc == searchResults[d]
                IN /\ doc.path \in paths
                   /\ doc.finalScore = BestScore(top, doc.path)
                   /\ doc.content = BestContent(top, doc.path)
                   /\ \A path \in paths :
                        DocsOf(path) = {} => BestScore(top, path) <= doc.finalScore

\* More than 50 chunks over more than 20 paths were grouped, several chunks a path.
C6_Witness ==
    /\ Reranked
    /\ Len(filteredChunks) > TopChunks
    /\ Cardinality(PathsOf(TopRanked)) > TopDocs
    /\ Len(searchResults) = TopDocs
    /\ \E d \in 1..Len(searchResults) : Len(searchResults[d].chunks) >= 2

\* C7: with a filter facet in the query, every entry of the result the
\* rerank emitted passes matchesFilters.
C7_ResultPassesFilters ==
    (RerankFinished /\ HasFilterFacet(parsedQuery)) =>
        \A k \in 1..Len(searchResults) :
            matchesFilters([path |-> searchResults[k].path, id |-> searchResults[k].path],
                           parsedQuery, searchResults[k].content)

\* C8 (as stated): once triage has returned not_needed, chatStream yields
\* token and done events only.
C8_OnlyTokenAndDone ==
    generatedQuery = "not_needed" =>
        \A k \in 2..Len(events) : events[k].type \in {"token", "done"}

\* C8 (amended): when triage returns not_needed, chatStream yields no
\* sources event; after its two thought events, "Analyzing your intent..."
\* before triage and "Direct chat (no vault search needed)..." after it,
\* it yields token and done events only.
C8_DirectChatEvents ==
    generatedQuery = "not_needed" =>
        /\ Len(events) >= 2
        /\ events[1] = Thought("Analyzing your intent...")
        /\ events[2] = Thought("Direct chat (no vault search needed)...")
        /\ \A k \in 3..Len(events) : events[k].type \in {"token", "done"}
        /\ EventsOfType(events, "sources") = <<>>

\* A direct answer has streamed a token after the two thoughts and ended
\* with a done event.
C8_Witness ==
    /\ generatedQuery = "not_needed"
    /\ pc = "done"
    /\ Len(EventsOfType(events, "token")) >= 1

\* C9: when triage returns not_needed, no search request is sent and the
\* embedding service is never called: the run makes the triage call and the
\* direct chat call, nothing else.
C9_NotNeededSkipsRetrieval ==
    generatedQuery = "not_needed" =>
        /\ calls = [chat |-> 1, chatStream |-> IF pc = "directChat" THEN 0 ELSE 1,
                    search |-> 0, embed |-> 0]
        /\ searchStatus = "none"
        /\ searchEvents = <<>>
        /\ candidates = <<>>
        /\ pc \in {"directChat", "direct", "done", "failed"}

\* A not_needed run has ended with its direct chat call made.
C9_Witness ==
    /\ generatedQuery = "not_needed"
    /\ pc = "done"
    /\ calls.chatStream = 1

LastTwo(seq) == SubSeq(seq, Len(seq) - 1, Len(seq))

\* C10: on zero candidates the rerank's one event is the empty result, no
\* embedding is requested, and chatStream ends with the no-notes token and
\* done, with no sources and no progress event and without throwing; a
\* failed search ends with another token, never with this one.
C10_ZeroCandidatesIsEmptySuccess ==
    /\ (searchStatus = "ok" /\ Len(candidates) = 0) =>
         /\ pc \in {"fetched", "searched", "noNotes", "done"}
         /\ calls.embed = 0
         /\ Len(EventsOfType(searchEvents, "progress")) = 0
         /\ pc # "fetched" => searchEvents = <<ResultEvent(<<>>)>>
         /\ \A k \in 1..Len(events) :
              /\ events[k].type \notin {"sources", "progress"}
              /\ events[k] # Token(SearchErrorText)
         /\ pc = "noNotes" => events[Len(events)] = Token(NoNotesText)
         /\ pc = "done" => LastTwo(events) = <<Token(NoNotesText), Done>>
    /\ searchStatus = "failed" =>
         /\ pc \in {"searchFailed", "done"}
         /\ pc = "searchFailed" => events[Len(events)] = Token(SearchErrorText)
         /\ pc = "done" => LastTwo(events) = <<Token(SearchErrorText), Done>>
         /\ \A k \in 1..Len(events) : events[k] # Token(NoNotesText)

\* A run whose search found nothing has ended.
C10_Witness ==
    /\ searchStatus = "ok"
    /\ Len(candidates) = 0
    /\ pc = "done"
    /\ searchResults = <<>>

(***************************************************************************)
(* Properties of the index worker.                                         *)
(***************************************************************************)
\* This step is the worker handling msg.
Handles(msg) == Len(inbox) > 0 /\ msg = Head(inbox) /\ handled' = Append(handled, [msg |-> msg, deleted |-> deletedPaths])

IdsOf(docs) == {docs[k].id : k \in 1..Len(docs)}

UniqueIds(docs) == \A j, k \in 1..Len(docs) : j # k => docs[j].id # docs[k].id

LastResponse == responses[Len(responses)]

\* C11: an index command for an id that is already indexed never raises
\* the number of indexed documents, and when it succeeds the entry of that
\* id is replaced by the new document; no id is ever held twice.
C11_IndexExistingIdReplaces ==
    [][\A msg \in {Head(inbox) : k \in {1} \cap DOMAIN inbox} :
         (Handles(msg) /\ msg.command = "index" /\ msg.payload.defined
              /\ MapHas(documents, msg.payload.id))
         => /\ Len(documents') = Len(documents)
            /\ Len(miniSearch') = Len(miniSearch)
            /\ IdsOf(documents') = IdsOf(documents)
            /\ UniqueIds(documents')
            /\ UniqueIds(miniSearch')
            /\ LastResponse'.status = "success" =>
                 /\ MapGet(documents', msg.payload.id).content = msg.payload.content
                 /\ MapGet(miniSearch', msg.payload.id).content = msg.payload.content
                 /\ \A k \in 1..Len(documents) :
                      documents[k].id # msg.payload.id => documents'[k] = documents[k]]_vars

\* The same id was indexed twice with different contents: one entry, the later content.
C11_Witness ==
    \E j, k \in 1..Len(handled) :
        /\ j < k
        /\ handled[j].msg.command = "index" /\ handled[k].msg.command = "index"
        /\ responses[j].status = "success" /\ responses[k].status = "success"
        /\ handled[j].msg.payload.id = handled[k].msg.payload.id
        /\ handled[j].msg.payload.content # handled[k].msg.payload.content
        /\ k = Len(handled)
        /\ Len(documents) = 1
        /\ documents[1].content = handled[k].msg.payload.content

\* C12: a search handled after a delete of path p, with no document of
\* path p indexed in between, returns no candidate whose path is p.
C12_NoCandidateOfDeletedPath ==
    \A k \in 1..Len(handled) :
        (handled[k].msg.command = "search" /\ responses[k].status = "success")
        => \A c \in 1..Len(responses[k].data.results) :
              responses[k].data.results[c].path \notin handled[k].deleted

\* A document was indexed, its path deleted, and a search it would match answered.
C12_Witness ==
    \E i, j, k \in 1..Len(handled) :
        /\ i < j /\ j < k
        /\ handled[i].msg.command = "index" /\ responses[i].status = "success"
        /\ handled[j].msg.command = "delete" /\ responses[j].data.count >= 1
        /\ handled[i].msg.payload.meta.filePath = handled[j].msg.payload.path
        /\ handled[k].msg.command = "search" /\ responses[k].status = "success"
        /\ MiniScore(IndexedDoc(handled[i].msg.payload), handled[k].msg.payload.query, 1) > 0
        /\ handled[j].msg.payload.path \in handled[k].deleted

\* C13: a delete command for path p removes the entries whose path is p
\* and no other, leaves the others as they were, and answers success with
\* the number of entries removed, zero included.
C13_DeleteRemovesExactlyThePath ==
    [][\A msg \in {Head(inbox) : k \in {1} \cap DOMAIN inbox} :
         (Handles(msg) /\ msg.command = "delete" /\ msg.payload.defined)
         => LET p == msg.payload.path
                Other(doc) == doc.path # p
            IN /\ documents' = SelectSeq(documents, Other)
               /\ miniSearch' = SelectSeq(miniSearch, Other)
               /\ LastResponse'.id = msg.id
               /\ LastResponse'.status = "success"
               /\ LastResponse'.data.count = Len(documents) - Len(documents')]_vars

\* A delete removed a document and left the document of another path in place.
C13_Witness ==
    /\ Len(handled) >= 1
    /\ handled[Len(handled)].msg.command = "delete"
    /\ LastResponse.status = "success"
    /\ LastResponse.data.count >= 1
    /\ Len(documents) >= 1

(***************************************************************************)
(* Properties of the Indexer and the vault events.                        *)
(***************************************************************************)
PathsIndexed == {documents[k].path : k \in 1..Len(documents)}
                    \cup {miniSearch[k].path : k \in 1..Len(miniSearch)}

\* Every indexFile call for the file has ended and every message posted
\* for the file has been handled.
Quiescent(f) ==
    /\ \A c \in indexCalls : c.path # f
    /\ inbox = <<>>

\* C14: once a vault file is deleted, no indexFile call for it is still
\* running and every message posted for it is handled, the index holds no
\* document of that path.
C14_DeletedFileLeavesIndex ==
    \A f \in Files : (~vault[f].exists /\ Quiescent(f)) => f \notin PathsIndexed

(***************************************************************************)
(* Properties of the worker's message handling.                           *)
(***************************************************************************)
\* C15: every message the worker has received and handled got exactly one
\* response, which carries the id of the message and the status success or
\* error; a message not yet handled is still waiting in the queue.  The
\* messages received are those of the poster and the init message of initWorker.
C15_OneResponsePerMessage ==
    /\ Len(responses) = Len(handled)
    /\ Len(handled) + Len(inbox) = posted + 1
    /\ \A k \in 1..Len(handled) :
          /\ responses[k].id = handled[k].msg.id
          /\ responses[k].status \in {"success", "error"}

\* An unknown command, a message without payload and a well-formed command were answered.
C15_Witness ==
    /\ Len(handled) = 4
    /\ inbox = <<>>
    /\ handled[1].msg = InitMessage /\ responses[1].data.message = "Worker initialized"
    /\ \E k \in 2..4 : handled[k].msg.command = "vacuum" /\ responses[k].status = "error"
    /\ \E k \in 2..4 : ~handled[k].msg.payload.defined /\ responses[k].status = "error"
    /\ \E k \in 2..4 : handled[k].msg.command = "index" /\ responses[k].status = "success"

KnownCommands == {"init", "index", "delete", "search"}

\* The payload lacks a field its command needs.
Malformed(msg) ==
    \/ msg.command \in {"index", "delete", "search"} /\ ~msg.payload.defined
    \/ /\ msg.command = "index"
       /\ \/ msg.payload.id = Undefined
          \/ msg.payload.content = Undefined
          \/ ~msg.payload.meta.defined
    \/ msg.command = "delete" /\ msg.payload.path = Undefined
    \/ msg.command = "search" /\ msg.payload.query = Undefined

\* C16: a message with an unknown command or a malformed payload is
\* answered with an error response carrying its id and leaves the indexed
\* documents as they were.
C16_BadMessageIsRejected ==
    [][\A msg \in {Head(inbox) : k \in {1} \cap DOMAIN inbox} :
         (Handles(msg) /\ (msg.command \notin KnownCommands \/ Malformed(msg)))
         => /\ LastResponse'.id = msg.id
            /\ LastResponse'.status = "error"
            /\ documents' = documents
            /\ miniSearch' = miniSearch]_vars

(***************************************************************************)
(* Properties of SearchService.                                            *)
(***************************************************************************)
\* The responses the listener has run on.
Delivered == {responses[j] : j \in 1..delivered}

SearchRequests == {k \in 1..Len(requests) : requests[k].kind = "search"}

\* C17: a search settles at most once, with whichever of the worker's
\* response and the timer came first; a timeout is a rejection with the
\* timeout error, which neither an empty result nor a worker error is; a
\* response delivered after the timeout leaves the outcome as it was.
C17_SearchSettlesOnceWithTheFirst ==
    \A k \in SearchRequests :
        LET req == requests[k]
        IN /\ req.settles <= 1
           /\ req.settles = 0 <=> req.outcome = "pending"
           /\ req.outcome = "pending" =>
                 req.searchPromise = "pending" /\ req.timeoutPromise = "pending"
           /\ req.settledBy \in {"", "timeout", req.id}
           /\ req.settledBy = "timeout" =>
                 /\ req.outcome = "rejected" /\ req.error = TimeoutText
                 /\ req.timeoutPromise = "rejected" /\ req.searchPromise = "pending"
           /\ req.settledBy = req.id =>
                 /\ req.searchPromise # "pending"
                 /\ req.outcome = "resolved" <=> req.searchPromise = "fulfilled"
                 /\ req.outcome = "rejected" => req.error # TimeoutText
                 /\ \E r \in Delivered :
                       /\ r.id = req.id
                       /\ r.status = "success" => req.value = r.data.results
                       /\ r.status = "error" => req.error = r.error

\* A search timed out and the listener has since run on the response of its id.
C17_Witness ==
    \E k \in SearchRequests :
        /\ requests[k].settledBy = "timeout"
        /\ \E r \in Delivered : r.id = requests[k].id /\ r.status = "success"

\* C18: the id of a request that has resolved, rejected or timed out is
\* not in pendingRequests; pendingRequests holds ids of waiting requests
\* only, and is empty when every issued request has settled.
C18_SettledIdsLeavePending ==
    /\ \A k \in 1..Len(requests) :
          requests[k].outcome # "pending" => requests[k].id \notin pendingRequests
    /\ pendingRequests \subseteq
          {requests[k].id : k \in {j \in 1..Len(requests) : requests[j].outcome = "pending"}}
    /\ (\A k \in 1..Len(requests) : requests[k].outcome # "pending") => pendingRequests = {}

\* A search that timed out and a request that was answered have both left pendingRequests.
C18_Witness ==
    /\ pendingRequests = {}
    /\ \E k \in SearchRequests : requests[k].settledBy = "timeout"
    /\ \E k \in 1..Len(requests) : requests[k].settledBy = requests[k].id
    /\ \A k \in 1..Len(requests) : requests[k].outcome # "pending"

\* C19: the ids of the issued requests are pairwise distinct, and a
\* caller is settled by a response only if the response carries its id:
\* what it resolves or rejects with is what that response holds.
C19_SettledByOwnResponse ==
    /\ \A j, k \in 1..Len(requests) : j # k => requests[j].id # requests[k].id
    /\ \A k \in 1..Len(requests) :
          LET req == requests[k]
          IN /\ req.settledBy \in {"", "timeout", req.id}
             /\ req.searchPromise # "pending" =>
                   \E r \in Delivered :
                      /\ r.id = req.id
                      /\ req.searchPromise = "fulfilled" <=> r.status = "success"
                      /\ (req.settledBy = req.id /\ r.status = "success") =>
                            req.outcome = "resolved" /\ req.value = r.data.results
                      /\ (req.settledBy = req.id /\ r.status = "error") =>
                            req.outcome = "rejected" /\ req.error = r.error

\* Two searches were in flight together, their responses differ, and the first is settled.
C19_Witness ==
    \E j, k \in SearchRequests :
        /\ j < k
        /\ requests[j].settledBy = requests[j].id
        /\ requests[k].outcome = "pending"
        /\ requests[k].id \in pendingRequests
        /\ \E r \in {responses[n] : n \in delivered + 1..Len(responses)} :
              /\ r.id = requests[k].id
              /\ r.data.results # requests[j].value

(***************************************************************************)
(* Order of the events of one chatStream run.                              *)
(***************************************************************************)
PositionsOfType(type) == {k \in 1..Len(events) : events[k].type = type}

\* C20: in one chatStream run every progress event comes before the
\* sources event, there is at most one sources event, it comes before
\* every token of the answer, and no progress event follows a sources or
\* a token event.
C20_ProgressThenSourcesThenTokens ==
    /\ Cardinality(PositionsOfType("sources")) <= 1
    /\ \A p \in PositionsOfType("progress") :
          \A q \in PositionsOfType("sources") \cup PositionsOfType("token") : p < q
    /\ \A q \in PositionsOfType("sources") : \A t \in PositionsOfType("token") : q < t

\* A finished run that reported progress, then its sources, then answer tokens.
C20_Witness ==
    /\ Len(events) > 0
    /\ events[Len(events)].type = "done"
    /\ Cardinality(PositionsOfType("progress")) >= 2
    /\ Cardinality(PositionsOfType("sources")) = 1
    /\ Cardinality(PositionsOfType("token")) >= 2

(***************************************************************************)
(* Failure of the chat service.                                            *)
(***************************************************************************)
\* C21: when the chat service fails, during triage or while an answer
\* streams, the call ends with the error raised: the query's events hold
\* no done event, nothing is emitted for it afterwards (the worker, the
\* listener and the timer of its search may still run), and the next
\* chatStream call on the agent starts as a first call does.
C21_ChatFailureEndsTheQuery ==
    /\ [](pc = "failed" => PositionsOfType("done") = {})
    /\ [][pc = "failed" => \/ pc' = "start" /\ events' = <<>>
                           \/ pc' = "failed" /\ events' = events]_vars
    /\ []((failedRuns > 0 /\ pc = "start") =>
             /\ events = <<>> /\ searchEvents = <<>> /\ candidates = <<>>
             /\ parsedQuery = EmptyParsedQuery /\ generatedQuery = ""
             /\ scoredChunks = <<>> /\ searchResults = <<>> /\ searchStatus = "none"
             /\ calls = [chat |-> 0, chatStream |-> 0, search |-> 0, embed |-> 0]
             /\ failures = 0 /\ tokens = 0)

\* After a call that failed, a later call has answered from the notes and ended with done.
C21_Witness ==
    /\ failedRuns = 1
    /\ pc = "done"
    /\ PositionsOfType("sources") # {}
    /\ PositionsOfType("token") # {}
    /\ events[Len(events)].type = "done"

(***************************************************************************)
(* Properties of parseQuery, matchesFilters and the triage parsing.       *)
(***************************************************************************)
ParseApplied == parserPc \in {"parsed", "reparsed", "filtered"}

\* What follows the first n characters of a token, lower-cased.
After(token, n) == toLowerCase(Slice(token, n + 1, Len(token)))

LowerAll(seq) == [k \in 1..Len(seq) |-> toLowerCase(seq[k])]

\* C22: a query with one token of each facet, in the order phrase, tag,
\* ext:, path:, -path:, -word, words, is separated into its facets; for
\* '"a b" #t1 ext:md path:foo -path:bar -x y z' the result is the one the
\* specification gives.
C22_OneTokenPerFacetIsSeparated ==
    /\ (ParseApplied /\ rawQuery = "\"a b\" #t1 ext:md path:foo -path:bar -x y z")
       => parsed = [text |-> <<"y", "z">>, exactTerms |-> <<"a b">>, tags |-> <<"#t1">>,
                    extensions |-> <<"md">>, pathIncludes |-> <<"foo">>,
                    pathExcludes |-> <<"bar">>, textExcludes |-> <<"x">>]
    /\ (ParseApplied /\ rawTokens \in FacetLists)
       => parsed = [text |-> LowerAll(SubSeq(rawTokens, 7, Len(rawTokens))),
                    exactTerms |-> <<toLowerCase(Slice(rawTokens[1], 2, Len(rawTokens[1]) - 1))>>,
                    tags |-> <<rawTokens[2]>>,
                    extensions |-> <<After(rawTokens[3], 4)>>,
                    pathIncludes |-> <<After(rawTokens[4], 5)>>,
                    pathExcludes |-> <<After(rawTokens[5], 6)>>,
                    textExcludes |-> <<After(rawTokens[6], 1)>>]

\* The query of the specification's example has been parsed.
C22_Witness ==
    /\ parserPc = "parsed"
    /\ rawQuery = "\"a b\" #t1 ext:md path:foo -path:bar -x y z"
    /\ parsed.pathExcludes = <<"bar">>
    /\ parsed.textExcludes = <<"x">>

\* The token is a tag: '#', a letter, then letters, digits, '_', '-' or '/'.
IsTagToken(t) == Len(t) >= 2 /\ TagMatchEnd(t, 1) = Len(t)

\* C23: every tag token of the raw query is in tags, with its '#', and no
\* word of text holds a '#', however many tags the query has.
C23_EveryTagIsExtracted ==
    ParseApplied =>
        /\ \A k \in 1..Len(rawTokens) :
              IsTagToken(rawTokens[k]) => rawTokens[k] \in Range(parsed.tags)
        /\ \A w \in Range(parsed.text) : ~includes(w, "#")

\* C24: parseQuery returns a ParsedQuery for every raw query, and parsing
\* the text it emitted, joined by spaces, gives that text again and no facet.
C24_ParseIsIdempotentOnText ==
    /\ ParseApplied => DOMAIN parsed = DOMAIN EmptyParsedQuery
    /\ parserPc = "reparsed" => reparsed = [EmptyParsedQuery EXCEPT !.text = parsed.text]

IsPathExcludeToken(t) == Len(t) > 6 /\ toLowerCase(Slice(t, 1, 6)) = "-path:"

\* C25: every -path:<token> of the raw query puts <token>, lower-cased,
\* in pathExcludes, and leaves nothing in pathIncludes, textExcludes or text.
C25_EveryPathExcludeIsExtracted ==
    ParseApplied =>
        LET expected == LowerAll([k \in 1..Len(SelectSeq(rawTokens, IsPathExcludeToken)) |->
                                    Slice(SelectSeq(rawTokens, IsPathExcludeToken)[k], 7,
                                          Len(SelectSeq(rawTokens, IsPathExcludeToken)[k]))])
        IN /\ parsed.pathExcludes = expected
           /\ "path" \notin Range(parsed.textExcludes)
           /\ \A v \in Range(expected) :
                 /\ v \notin Range(parsed.pathIncludes)
                 /\ v \notin Range(parsed.textExcludes)
                 /\ \A w \in Range(parsed.text) : ~includes(w, v)

\* The path the filter looks at, and its extension: what follows the last
\* '.', the whole path when it has none.
FilterPath == toLowerCase(IF filterCase.path # "" THEN filterCase.path ELSE filterCase.id)

FilterExt ==
    LET dots == {i \in 1..Len(FilterPath) : CharAt(FilterPath, i) = "."}
    IN IF dots = {} THEN FilterPath
       ELSE Slice(FilterPath, (CHOOSE i \in dots : \A j \in dots : i >= j) + 1, Len(FilterPath))

\* Some facet of the parsed query rejects the result handed to the filter.
SomeRuleFails ==
    LET content == toLowerCase(filterCase.content)
    IN \/ /\ parsed.extensions # <<>>
          /\ \A e \in Range(parsed.extensions) : Slice(FilterExt, 1, Len(e)) # e
       \/ /\ parsed.pathIncludes # <<>>
          /\ \A p \in Range(parsed.pathIncludes) : ~includes(FilterPath, p)
       \/ \E p \in Range(parsed.pathExcludes) : includes(FilterPath, p)
       \/ \E term \in Range(parsed.exactTerms) : ~includes(content, term)
       \/ \E term \in Range(parsed.textExcludes) : includes(content, term)

\* C26: matchesFilters is true exactly when no facet rule fails: the
\* extension starts with a listed extension, the path holds some
\* pathIncludes entry and no pathExcludes entry, the content holds every
\* exact phrase and no excluded word; empty facets and tags do not restrict.
C26_FilterVerdictIsTheRules ==
    parserPc = "filtered" => (filterCase.verdict <=> ~SomeRuleFails)

\* A result passed the filter of a query that has every facet, a tag included.
C26_Witness ==
    /\ parserPc = "filtered"
    /\ rawTokens \in FacetLists
    /\ filterCase.verdict
    /\ parsed.tags # <<>>
    /\ ~includes(toLowerCase(filterCase.content), toLowerCase(parsed.tags[1]))

\* The output holds an opening tag and, after it, a closing tag.
HasQuestionTag(output) ==
    \E i \in 1..Len(output) : \E j \in (i + Len(OpenTag))..Len(output) :
        /\ Slice(output, i, i + Len(OpenTag) - 1) = OpenTag
        /\ Slice(output, j, j + Len(CloseTag) - 1) = CloseTag

\* C28: when the triage output has no <question>...</question> tag, the
\* result is not_needed if the output holds 'not_needed' anywhere, and
\* the query that was passed in otherwise; every output gives a result.
C28_TriageFallsBack ==
    (parserPc = "triaged" /\ ~HasQuestionTag(triaged.output)) =>
        triaged.result = IF \E i \in 1..Len(triaged.output) :
                                Slice(triaged.output, i, i + 9) = "not_needed"
                         THEN "not_needed" ELSE rawQuery

\* An output with the tags in the wrong order and the sentinel between them.
C28_Witness ==
    /\ parserPc = "triaged"
    /\ triaged.output = "</question> not_needed <question>"
    /\ triaged.result = "not_needed"

(***************************************************************************)
(* The correlation ids of the messages posted to the worker.              *)
(***************************************************************************)
\* Every message posted so far: those handled, then those waiting.
AllPosted == [k \in 1..Len(handled) |-> handled[k].msg] \o inbox

\* C27: no two messages posted to the worker carry the same correlation
\* id, the same file being indexed or deleted again included.
C27_CorrelationIdsAreUnique ==
    \A j, k \in 1..Len(AllPosted) : j # k => AllPosted[j].id # AllPosted[k].id

(***************************************************************************)
(* Size and order of the rerank's result; calls of the embedding service. *)
(***************************************************************************)
\* The chunks of the returned documents, as <<document, position>> pairs.
ReturnedChunks ==
    {<<d, j>> : d \in 1..Len(searchResults), j \in 1..TopChunks} \cap
    UNION {{<<d, j>> : j \in 1..Len(searchResults[d].chunks)} : d \in 1..Len(searchResults)}

ChunkAt(at) == searchResults[at[1]].chunks[at[2]]

\* C29: a rerank that did not fall back returns at most 20 documents, best
\* finalScore first; their chunks lists share no chunk, hold at most 50
\* chunks together, and hold only chunks among the first 50 of the
\* filtered chunks, none of which scores below a chunk left out.
C29_AtMostTwentyDocsOfFiftyChunks ==
    Reranked =>
        /\ Len(searchResults) <= TopDocs
        /\ \A d \in 1..(Len(searchResults) - 1) :
              searchResults[d].finalScore >= searchResults[d + 1].finalScore
        /\ \A d \in 1..Len(searchResults) : Len(searchResults[d].chunks) <= TopChunks
        /\ \A a, b \in ReturnedChunks : a # b => ChunkAt(a).id # ChunkAt(b).id
        /\ Cardinality(ReturnedChunks) <= TopChunks
        /\ \A a \in ReturnedChunks :
              /\ \E k \in 1..Len(TopRanked) : TopRanked[k] = ChunkAt(a)
              /\ ChunkAt(a).path = searchResults[a[1]].path
        /\ \A j \in 1..Len(TopRanked) : \A k \in (TopChunks + 1)..Len(filteredChunks) :
              filteredChunks[j].finalScore >= filteredChunks[k].finalScore

\* More than 50 chunks of more than 20 paths were ranked: 20 documents came back.
C29_Witness ==
    /\ Reranked
    /\ Len(filteredChunks) > TopChunks
    /\ Cardinality(PathsOf(filteredChunks)) > TopDocs
    /\ Len(searchResults) = TopDocs
    /\ \E d \in 1..Len(searchResults) : Len(searchResults[d].chunks) > 1

\* The chunks of the batch loop that reached the embedding service.
ChunksEmbedded == {k \in 1..Len(embedOutcome) : embedOutcome[k] # "skipped"}

ScoredAs(id) == scoredChunks[CHOOSE k \in 1..Len(scoredChunks) : scoredChunks[k].id = id]

\* C30: the batch loop calls the embedding service once for each candidate
\* it scores, except for a candidate whose content is empty once null
\* bytes are stripped and the rest trimmed: that one is not sent, gets
\* finalScore -100, similarity 0 and chunkLen 0, and its turn still yields
\* a progress event.
C30_EmptyChunkIsNotEmbedded ==
    (pc = "embedding" \/ Reranked) =>
        /\ calls.embed = 1 + Cardinality(ChunksEmbedded)
        /\ Len(ProgressOf(searchEvents)) = Len(embedOutcome)
        /\ \A k \in 1..Len(embedOutcome) :
              /\ embedOutcome[k] = "skipped" <=> Len(CleanContent(candidates[k])) = 0
              /\ embedOutcome[k] = "skipped" =>
                    /\ ScoredAs(candidates[k].id).finalScore = -100 * Scale
                    /\ ScoredAs(candidates[k].id).similarity = 0
                    /\ ScoredAs(candidates[k].id).chunkLen = 0
                    /\ ProgressOf(searchEvents)[k] = <<k, Len(candidates)>>

\* A rerank ended in which one candidate was empty and another was embedded.
C30_Witness ==
    /\ Reranked
    /\ \E k \in 1..Len(embedOutcome) : embedOutcome[k] = "skipped"
    /\ \E k \in 1..Len(embedOutcome) : embedOutcome[k] = "ok"
    /\ calls.embed = Len(candidates)

\* How the batch loop scored the candidate with this id.
OutcomeOf(id) == embedOutcome[PositionOf(candidates, id)]

\* C31: in the chunk ordering the grouping reads, no chunk scored with a
\* sentinel (skipped as empty, or its embedding call failed) stands before a
\* chunk that was embedded and scored, whatever the query, tags included.
C31_SentinelChunksRankLast ==
    Reranked =>
        \A i, j \in 1..Len(filteredChunks) :
            ( /\ OutcomeOf(filteredChunks[i].id) # "ok"
              /\ OutcomeOf(filteredChunks[j].id) = "ok" )
            => j < i

\* The vector the embedding service returned for the k-th candidate.
ChunkEmbedding(k) == EmbeddingOf(CleanContent(candidates[k]))

\* n is the Euclidean norm of a.
IsNormOf(n, a) == n * n = DotProduct(a, a, Len(a))

\* similarity is dot(a, b) / (|a| * |b|), told without a division.
IsCosineOf(similarity, a, b) ==
    \E na \in 1..DotProduct(a, a, Len(a)) :
        /\ IsNormOf(na, a)
        /\ \E nb \in 1..DotProduct(b, b, Len(b)) :
               /\ IsNormOf(nb, b)
               /\ similarity * na * nb = DotProduct(a, b, Len(a)) * Scale

\* C32: while the batch loop runs, every chunk whose embedding call succeeded
\* carries finalScore = keywordScore * 0.1 + similarity * 10 (keywordScore 2
\* and similarity 0.5 give 5.2), its similarity being the cosine of the query
\* vector and the chunk vector; on the vectors of the embedding service (one
\* dimension, none of them zero) the cosine is the same with its arguments
\* swapped and is 1 for a vector with itself.
C32_FusionOfKeywordAndCosine ==
    /\ FinalScore(2 * Scale, Scale \div 2) * 10 = 52 * Scale
    /\ pc = "embedding" =>
           \A k \in 1..Len(scoredChunks) :
               embedOutcome[k] = "ok" =>
                   LET chunk == scoredChunks[k]
                       vector == ChunkEmbedding(k)
                   IN /\ chunk.finalScore * 10
                             = chunk.keywordScore + chunk.similarity * 10 * 10
                      /\ IsCosineOf(chunk.similarity, queryEmbedding, vector)
                      /\ cosineSimilarity(queryEmbedding, vector)
                             = cosineSimilarity(vector, queryEmbedding)
                      /\ cosineSimilarity(vector, vector) = Scale
                      /\ cosineSimilarity(queryEmbedding, queryEmbedding) = Scale

\* A chunk has been embedded with a vector of another length and another
\* direction than the query's, and scored from both shares.
C32_Witness ==
    /\ pc = "embedding"
    /\ \E k \in 1..Len(scoredChunks) :
           /\ embedOutcome[k] = "ok"
           /\ DotProduct(ChunkEmbedding(k), ChunkEmbedding(k), 2)
                  # DotProduct(queryEmbedding, queryEmbedding, 2)
           /\ scoredChunks[k].similarity > 0
           /\ scoredChunks[k].similarity < Scale
           /\ scoredChunks[k].keywordScore > 0
           /\ scoredChunks[k].finalScore * 10
                  = scoredChunks[k].keywordScore + scoredChunks[k].similarity * 10 * 10

(***************************************************************************)
(* Properties of the tokenizer.                                            *)
(***************************************************************************)
TokenizerReturned == unitPc = "tokenized"

\* A character that ends a run: whitespace or an ideograph.
EndsRun(c) == IsSpace(c) \/ IsCJK(c)

\* i..j is a run of the input: no character of it ends a run, the characters
\* around it do (or are the ends of the input).
IsRun(string, i, j) ==
    /\ i <= j
    /\ \A k \in i..j : ~EndsRun(CharAt(string, k))
    /\ i > 1 => EndsRun(CharAt(string, i - 1))
    /\ j < Len(string) => EndsRun(CharAt(string, j + 1))

Folded(str) == removeDiacritics(toLowerCase(str))

\* Neither a capital nor a character that carries or is a diacritic.
IsFoldedChar(c) == ~IsUpper(c) /\ c \notin {AccentedUpper, AccentedLower, CombiningMark}

\* C33: for every input string, each ideograph of the input is a token of
\* its own and no token holds an ideograph beside another character; no
\* token holds whitespace or spans it: every token is the folded form of a
\* piece of one run or of one ideograph, and every run that does not fold to
\* nothing is a token; no token is empty, none occurs twice, and every token
\* is lower-cased and free of diacritics.
C33_TokensOfRunsAndIdeographs ==
    TokenizerReturned =>
        LET string == tokenizerInput
            emitted == tokenizerOutput
            at == 1..Len(string)
        IN /\ \A i \in at : IsCJK(CharAt(string, i)) => CharAt(string, i) \in Range(emitted)
           /\ \A k \in 1..Len(emitted) :
                  /\ hasCJK(emitted[k]) => Len(emitted[k]) = 1
                  /\ emitted[k] # ""
                  /\ \A p \in 1..Len(emitted[k]) :
                         /\ ~IsSpace(CharAt(emitted[k], p))
                         /\ IsFoldedChar(CharAt(emitted[k], p))
                  /\ \A j \in 1..Len(emitted) : j # k => emitted[j] # emitted[k]
                  /\ \E i, j \in at :
                         /\ i <= j
                         /\ emitted[k] = Folded(Slice(string, i, j))
                         /\ \/ i = j /\ IsCJK(CharAt(string, i))
                            \/ \A q \in i..j : ~EndsRun(CharAt(string, q))
           /\ \A i, j \in at :
                  (IsRun(string, i, j) /\ Folded(Slice(string, i, j)) # "")
                      => Folded(Slice(string, i, j)) \in Range(emitted)

\* The tokenizer has returned for an accented capital, an ideograph behind
\* it and the same accented capital again: the run is flushed by the
\* ideograph, folded to "e", and the second "e" is dropped.
C33_Witness ==
    /\ TokenizerReturned
    /\ tokenizerInput = AccentedUpper \o "$" \o AccentedUpper
    /\ tokenizerOutput = <<"e", "$">>

\* C34: whatever commands the worker has handled (init, index, delete,
\* search, unknown or malformed ones), the documents map and the search
\* index hold the same ids, each once, and every candidate of the search
\* answered last carries the content and the path stored under its id.
C34_DocumentsMatchTheIndex ==
    /\ IdsOf(documents) = IdsOf(miniSearch)
    /\ UniqueIds(documents)
    /\ UniqueIds(miniSearch)
    /\ (Len(handled) > 0 /\ handled[Len(handled)].msg.command = "search"
            /\ LastResponse.status = "success")
       => \A c \in 1..Len(LastResponse.data.results) :
              LET hit == LastResponse.data.results[c]
              IN /\ MapHas(documents, hit.id)
                 /\ hit.content = MapGet(documents, hit.id).content
                 /\ hit.path = MapGet(documents, hit.id).path

\* An id was indexed, indexed again with another content, and a search then
\* returned it with the content stored last.
C34_Witness ==
    /\ Len(handled) = 4
    /\ handled[2].msg.command = "index" /\ responses[2].status = "success"
    /\ handled[3].msg.command = "index" /\ responses[3].status = "success"
    /\ handled[2].msg.payload.id = handled[3].msg.payload.id
    /\ handled[2].msg.payload.content # handled[3].msg.payload.content
    /\ handled[4].msg.command = "search" /\ responses[4].status = "success"
    /\ Len(responses[4].data.results) = 1
    /\ responses[4].data.results[1].content = handled[3].msg.payload.content

(***************************************************************************)
(* Properties of re-indexing.                                              *)
(***************************************************************************)
\* The chunk of the file's present content that carries this id, if any.
IsLatestChunk(f, doc) ==
    \E chunkerThrows \in BOOLEAN :
        \E k \in 1..Len(chunkContent(vault[f].content, f, vault[f].mtime, chunkerThrows)) :
            /\ chunkContent(vault[f].content, f, vault[f].mtime, chunkerThrows)[k].id = doc.id
            /\ chunkContent(vault[f].content, f, vault[f].mtime, chunkerThrows)[k].text = doc.content

\* C35: once every indexFile call for a file has returned and every message
\* posted for it is handled, every document of that path in the index is a
\* chunk of the content the file has now: none of an older version remains,
\* also when the latest version has fewer chunks.
C35_NoChunkOfAnOlderVersion ==
    \A f \in Files :
        (vault[f].exists /\ Quiescent(f)) =>
            /\ \A k \in 1..Len(documents) :
                   documents[k].path = f => IsLatestChunk(f, documents[k])
            /\ \A k \in 1..Len(miniSearch) :
                   miniSearch[k].path = f => IsLatestChunk(f, miniSearch[k])

\* An index message for a chunk of the file has been handled with success.
WasIndexed(f) ==
    \E k \in 1..Len(handled) :
        /\ handled[k].msg.command = "index"
        /\ handled[k].msg.payload.meta.filePath = f
        /\ responses[k].status = "success"

\* C36: a file that is still in the vault and whose chunks were indexed
\* keeps chunks in the index once its indexFile calls have returned and
\* their messages are handled, also when a later call failed to read or
\* chunk it: the failed re-index leaves the chunks indexed before it.
C36_FailedReindexKeepsTheChunks ==
    \A f \in Files :
        (vault[f].exists /\ Quiescent(f) /\ WasIndexed(f)) => f \in PathsIndexed

(***************************************************************************)
(* Properties of buildIndex.                                               *)
(***************************************************************************)
DeletesPosted == SelectSeq(AllPosted, LAMBDA m : m.command = "delete")

\* The indexFile calls buildIndex has made so far.
FilesStarted == processedCount + (IF unitPc = "await" THEN 1 ELSE 0)

CallsAtTotal == {k \in 1..Len(progressCalls) : progressCalls[k].completed = Len(buildFiles)}

\* C37 as stated: when buildIndex has returned, onProgress was called with
\* completed = total exactly once.
C37_ProgressReachesTotalOnce ==
    unitPc = "built" => Cardinality(CallsAtTotal) = 1

\* C37: buildIndex takes every markdown file of the vault once and in the
\* vault's order, whether indexing a file failed or not; the k-th call of
\* onProgress carries completed = k and total = the number of files, one
\* call per file; with at least one file completed = total is reported
\* exactly once, by the last call, and with no file onProgress is not called.
C37_EveryFileOnceInOrder ==
    unitPc \in {"loop", "await", "built"} =>
        /\ \A f \in Files :
               Cardinality({k \in 1..Len(buildFiles) : buildFiles[k] = f})
                   = (IF vault[f].exists THEN 1 ELSE 0)
        /\ \A j, k \in 1..Len(buildFiles) :
               j < k => \E a, b \in 1..Len(FileList) :
                            a < b /\ FileList[a] = buildFiles[j] /\ FileList[b] = buildFiles[k]
        /\ DeletesPosted = [k \in 1..FilesStarted |-> DeleteMessage(buildFiles[k])]
        /\ Len(progressCalls) = processedCount
        /\ \A k \in 1..Len(progressCalls) :
               progressCalls[k] = [completed |-> k, total |-> Len(buildFiles)]
        /\ unitPc = "built" =>
               /\ processedCount = Len(buildFiles)
               /\ IF Len(buildFiles) = 0 THEN progressCalls = <<>>
                  ELSE CallsAtTotal = {Len(progressCalls)}

\* buildIndex has returned on a vault of two files: the first could not be
\* read and has no index message, the second was indexed, and onProgress
\* was called for both.
C37_Witness ==
    /\ unitPc = "built"
    /\ buildFiles = <<"a.md", "b.md">>
    /\ ~\E k \in 1..Len(AllPosted) :
           AllPosted[k].command = "index" /\ AllPosted[k].payload.meta.filePath = "a.md"
    /\ \E k \in 1..Len(AllPosted) :
           AllPosted[k].command = "index" /\ AllPosted[k].payload.meta.filePath = "b.md"
    /\ progressCalls = <<[completed |-> 1, total |-> 2], [completed |-> 2, total |-> 2]>>

(***************************************************************************)
(* Properties of getEmbeddings.                                            *)
(***************************************************************************)
\* The requests sent so far, the one in flight included.
RequestsSent == Len(attemptLog) + (IF unitPc = "request" THEN 1 ELSE 0)

EmbedReturned == unitPc = "embedded"

\* What holds of the retry loop in every state.
RetryLoopIsBounded ==
    /\ RequestsSent <= retries
    /\ \A k \in 1..Len(attemptLog) :
           attemptLog[k] = "ok" =>
               /\ k = Len(attemptLog)
               /\ EmbedReturned
               /\ embedResult.status = "returned"
               /\ embedResult.value = EmbeddingOf(embedPrompt)
    /\ embedResult.status = "returned" =>
           Len(attemptLog) >= 1 /\ attemptLog[Len(attemptLog)] = "ok"
    /\ embedResult.status = "thrown" =>
           /\ Len(attemptLog) = retries
           /\ \A k \in 1..Len(attemptLog) : attemptLog[k] \in RequestFailures
    /\ RequestsSent >= 1 =>
           /\ unitPc \in {"request", "embedded"} => Len(waits) = RequestsSent - 1
           /\ unitPc \in {"wait", "embed"} => Len(waits) = RequestsSent
    /\ \A k \in 1..Len(waits) : waits[k] > 0
    /\ EmbedReturned <=> embedResult.status # "pending"

\* C38: getEmbeddings sends at most `retries` requests (3 by default); a
\* successful request is the last one and its vector is returned; a timer is
\* waited for between a failed request and the next one; it throws only
\* when `retries` requests have failed; and, every request being answered
\* and every timer firing, it returns or throws in the end.
C38_RetriesAreBoundedAndEnd == [](RetryLoopIsBounded) /\ <>(EmbedReturned)

\* The third request succeeded after two failed ones and two backoffs.
C38_Witness ==
    /\ EmbedReturned
    /\ retries = DefaultRetries
    /\ Len(attemptLog) = 3
    /\ attemptLog[1] \in RequestFailures
    /\ attemptLog[2] \in RequestFailures
    /\ attemptLog[3] = "ok"
    /\ waits = <<500, 1000>>
    /\ embedResult = [status |-> "returned", value |-> EmbeddingOf(embedPrompt), error |-> ""]

(***************************************************************************)
(* Properties of the grouped documents' fields.                            *)
(***************************************************************************)
\* The chunk is the one the document's fields were taken from.
IsSourceChunk(doc, chunk) ==
    /\ chunk.path = doc.path
    /\ doc.content = chunk.content
    /\ doc.keywordScore = chunk.keywordScore
    /\ doc.similarity = chunk.similarity
    /\ doc.finalScore = chunk.finalScore

\* C39: in every document the grouping produced, content, keywordScore,
\* similarity and finalScore are those of one chunk of the document's
\* chunks list, and no chunk of that path among the grouped ones scores
\* higher (embeddings being non-zero vectors of one dimension, so that every
\* finalScore is a number).
C39_FieldsOfTheBestChunk ==
    Reranked =>
        \A d \in 1..Len(searchResults) :
            LET doc == searchResults[d]
            IN \E k \in 1..Len(doc.chunks) :
                  /\ IsSourceChunk(doc, doc.chunks[k])
                  /\ \A j \in 1..Len(doc.chunks) :
                        doc.chunks[j].finalScore <= doc.chunks[k].finalScore
                  /\ doc.finalScore = BestScore(TopRanked, doc.path)

\* A document of two chunks that differ in content, keywordScore and
\* similarity, the lower-ranked one with the higher keywordScore.
C39_Witness ==
    /\ Reranked
    /\ \E d \in 1..Len(searchResults) :
          LET doc == searchResults[d]
          IN /\ Len(doc.chunks) >= 2
             /\ IsSourceChunk(doc, doc.chunks[1])
             /\ doc.chunks[2].finalScore < doc.chunks[1].finalScore
             /\ doc.chunks[2].keywordScore > doc.chunks[1].keywordScore
             /\ doc.chunks[2].similarity # doc.chunks[1].similarity
             /\ doc.chunks[2].content # doc.chunks[1].content

(***************************************************************************)
(* Properties of the end of a chatStream run.                              *)
(***************************************************************************)
\* The run returned: it did not raise.
RunReturned == pc = "done"

\* C40: a chatStream run that returns without raising has emitted exactly
\* one done event, as its last event, whichever way it went (direct chat,
\* failed search, empty result, full answer); a done event is never
\* followed by another event of the run.
C40_OneDoneAndLast ==
    /\ [](RunReturned =>
             /\ Len(events) >= 1
             /\ PositionsOfType("done") = {Len(events)})
    /\ [](\A k \in PositionsOfType("done") : k = Len(events))
    /\ [][PositionsOfType("done") # {} => (events' = events \/ events' = <<>>)]_vars
    /\ [][(pc # "done" /\ pc' = "done") =>
             /\ Len(events') > Len(events)
             /\ events'[Len(events')] = Done
             /\ \A k \in 1..Len(events) : events'[k] = events[k]]_vars

\* A run whose search failed has answered with the error text and ended
\* with its one done event.
C40_Witness ==
    /\ RunReturned
    /\ searchStatus = "failed"
    /\ Len(events) >= 5
    /\ PositionsOfType("done") = {Len(events)}
    /\ events[Len(events) - 1] = Token(SearchErrorText)

====
